---- MODULE Spec2Model ----
(***************************************************************************)
(* Model of the uni module registry (RegisterModule / GetModule) and of    *)
(* the Context lifecycle engine (NewContext's cancel function and          *)
(* Context.LoadModuleByID).                                                *)
(*                                                                         *)
(* A load is re-entrant: Provision(ctx) of the instance being loaded may   *)
(* itself call ctx.LoadModuleByID.  A load is therefore split at the call  *)
(* of Provision: LoadModuleByID runs the code up to that call and          *)
(* ProvisionReturn runs the code after it.  The loads whose Provision has  *)
(* not returned yet are the frames of stack.                               *)
(***************************************************************************)
EXTENDS Integers, Sequences, FiniteSets, TLC

VARIABLES
    modules,          \* the registry: module ID -> ModuleInfo
    panicMsg,         \* <<>>, or the message of the panic that ended the process
    moduleInstances,  \* Context.moduleInstances: module ID -> sequence of instances
    cleanupFuncs,     \* ctx.cleanupFuncs of the parent, as captured by the cancel function
    apps,             \* Config.apps: module ID -> instance
    failedApps,       \* Config.failedApps: module ID -> error
    eventEmitter,     \* Config.eventEmitter: instance, or NoInst
    stack,            \* the loads whose Provision is running, outermost first
    calls,            \* per call of LoadModuleByID: its id and the Go type constructed
    trace,            \* every lifecycle call and return, in the order it happened
    canceled,         \* whether the cancel function has been called
    modulesMu,        \* the sync.RWMutex of the registry: its writer and its readers
    goroutines,       \* the goroutines that call the registry concurrently
    listed,           \* the scope and the result of the last call of GetModules
    created,          \* whether NewContext(parent) has returned the Context and its cancel
    parentCtx,        \* the callbacks of the parent Context, as its owner holds it
    newCtx,           \* the callbacks of the Context NewContext returned
    resolving,        \* the call of LoadModule or loadModulesFromSomeMap that is running, if any
    evaluated,        \* the call of a function without side effect: its argument and result
    logCore,          \* a LogBufferCore, the calls made on loggers, and the callers of the core
    contexts          \* the Context values of a program that derives them, and their maps

vars == <<modules, panicMsg, moduleInstances, cleanupFuncs, apps, failedApps,
          eventEmitter, stack, calls, trace, canceled, modulesMu, goroutines,
          listed, created, parentCtx, newCtx, resolving, evaluated, logCore,
          contexts>>

\* the variables no step of a single-threaded use of one Context touches
auxVars == <<modulesMu, goroutines, listed, created, parentCtx, newCtx, evaluated,
             logCore, contexts>>

\* the variables neither a registration nor the cancel function touches
otherVars == <<auxVars, resolving>>

\* ---------------------------------------------------------------- bounds

\* how many calls of LoadModuleByID a behaviour makes
MaxLoads == 2

\* ---------------------------------------------------------------- values

NoCtor == "nil"
NoType == "none"
NoInst == 0
NoErr == <<>>
EmptyMap == [x \in {} |-> x]

\* the registry lock held by nobody
Unlocked == [writer |-> 0, readers |-> {}]

\* no goroutine but the main one: the registry has no concurrent caller
NoGoroutines == modulesMu = Unlocked /\ goroutines = <<>>

\* GetModules has not been called
NoListing == listed = [scope |-> "", mods |-> <<>>, called |-> FALSE]

\* a Context without callbacks
NoCallbacks == [cleanupFuncs |-> <<>>, exitFuncs |-> <<>>]

\* NewContext(parent) has returned, and no callback was registered on parent
\* before, nor on any Context since
OneContext == created = TRUE /\ parentCtx = NoCallbacks /\ newCtx = NoCallbacks

\* no function without side effect is called
NotEvaluated == [fn |-> "", arg |-> <<>>, out |-> <<>>, returned |-> FALSE]

\* NewLogBufferCore(level): nothing is buffered, its mutex is free, and no
\* logger has been called
NoLogCore ==
    [mu |-> 0, entries |-> <<>>, fields |-> <<>>, out |-> <<>>, written |-> 0,
     sent |-> <<>>, returned |-> {}, flushes |-> 0, procs |-> <<>>]

\* no Context value is followed
NoContexts == [heap |-> <<>>, vals |-> <<>>, cancels |-> <<>>, log |-> <<>>]

\* no field is being resolved
NotResolving ==
    [status |-> "idle", typ |-> "", namespace |-> "", moduleInlineKey |-> "",
     field |-> <<>>, val |-> <<>>, order |-> <<>>, pos |-> 1, mods |-> <<>>,
     result |-> <<>>, err |-> <<>>]

\* nothing but the registrations, the loads and the cancellation of one
\* Context goes on
NoAux ==
    /\ NoGoroutines
    /\ NoListing
    /\ OneContext
    /\ resolving = NotResolving
    /\ evaluated = NotEvaluated
    /\ logCore = NoLogCore
    /\ contexts = NoContexts

\* map[k] = v, as Go's m[k] = v
Put(m, k, v) == [x \in DOMAIN m \cup {k} |-> IF x = k THEN v ELSE m[x]]

\* the Go types that implement Module in a program built on this package:
\* Demo is the repository's own; the others are the components (and the
\* invalid ones) the registry and the engine must deal with
ModuleTypes ==
    {"Demo", "EmptyID", "Uni", "Admin", "NoNew", "NilNew",
     "App", "Handler", "HandlerDup", "Checker"}

\* the types whose instances the loads of Spec construct; Handler and
\* HandlerDup declare the same ID with different constructors
LifecycleTypes == {"App", "Handler", "HandlerDup"}

\* ModuleInfo.ID as T.UniModule() declares it
TypeID(T) ==
    CASE T = "Demo" -> "uni.demo"
      [] T = "EmptyID" -> ""
      [] T = "Uni" -> "uni"
      [] T = "Admin" -> "admin"
      [] T = "NoNew" -> "nilmod"
      [] T = "NilNew" -> "nilmod"
      [] T = "App" -> "app"
      [] T = "Handler" -> "a.b"
      [] T = "HandlerDup" -> "a.b"
      [] T = "Checker" -> "a.c"
      [] T = "PlainApp" -> "plain"
      [] T = "Emitter" -> "events"

\* ModuleInfo.New as T.UniModule() declares it: a constructor is named by the
\* type whose UniModule declares it
TypeNew(T) == IF T = "NoNew" THEN NoCtor ELSE T

\* T.UniModule()
UniModule(T) == [ID |-> TypeID(T), New |-> TypeNew(T)]

\* mi.New(): the Go type of the value the constructor returns, NoType for nil
CallNew(ctor) == IF ctor = "NilNew" THEN NoType ELSE ctor

\* the capability interfaces a Go type implements
Caps(T) ==
    CASE T = "App" -> {"Provisioner", "Validator", "CleanerUpper", "App", "eventEmitter"}
      [] T = "Handler" -> {"Provisioner", "CleanerUpper"}
      [] T = "HandlerDup" -> {"Validator"}
      [] T = "Checker" -> {"Provisioner", "Validator"}
      [] T = "PlainApp" -> {"App", "Validator"}
      [] T = "Emitter" -> {"Provisioner", "eventEmitter"}
      [] OTHER -> {}

\* the JSON properties a Go type decodes (its exported fields)
Fields(T) ==
    CASE T = "App" -> {"listen"}
      [] T = "Handler" -> {"timeout"}
      [] T = "HandlerDup" -> {"timeout"}
      [] OTHER -> {}

\* ---------------------------------------------------------------- registry

Panic(msg) ==
    /\ panicMsg' = msg
    /\ UNCHANGED modules

\* RegisterModule without the check for a registered ID: the entry is replaced
RegisterModule_Overwrite(T) ==
    /\ panicMsg = NoErr
    /\ LET mi == UniModule(T)
       IN IF mi.ID = ""
            THEN Panic(<<"module ID missing">>)
          ELSE IF mi.ID = "uni" \/ mi.ID = "admin"
            THEN Panic(<<"module ID is reserved", mi.ID>>)
          ELSE IF mi.New = NoCtor
            THEN Panic(<<"missing ModuleInfo.New">>)
          ELSE IF CallNew(mi.New) = NoType
            THEN Panic(<<"ModuleInfo.New must return a non-nil module instance">>)
          ELSE /\ modules' = Put(modules, mi.ID, mi)
               /\ UNCHANGED panicMsg
    /\ UNCHANGED <<moduleInstances, cleanupFuncs, apps, failedApps, eventEmitter,
                   stack, calls, trace, canceled>>
    /\ UNCHANGED otherVars

\* RegisterModule that reserves "uni" alone
RegisterModule_AdminAllowed(T) ==
    /\ panicMsg = NoErr
    /\ LET mi == UniModule(T)
       IN IF mi.ID = ""
            THEN Panic(<<"module ID missing">>)
          ELSE IF mi.ID = "uni"
            THEN Panic(<<"module ID is reserved", mi.ID>>)
          ELSE IF mi.New = NoCtor
            THEN Panic(<<"missing ModuleInfo.New">>)
          ELSE IF CallNew(mi.New) = NoType
            THEN Panic(<<"ModuleInfo.New must return a non-nil module instance">>)
          ELSE IF mi.ID \in DOMAIN modules
            THEN Panic(<<"module already registered", mi.ID>>)
          ELSE /\ modules' = Put(modules, mi.ID, mi)
               /\ UNCHANGED panicMsg
    /\ UNCHANGED <<moduleInstances, cleanupFuncs, apps, failedApps, eventEmitter,
                   stack, calls, trace, canceled>>
    /\ UNCHANGED otherVars

\* RegisterModule(instance), instance of Go type T
RegisterModule(T) ==
    /\ panicMsg = NoErr
    /\ LET mi == UniModule(T)
       IN IF mi.ID = ""
            THEN Panic(<<"module ID missing">>)
          ELSE IF mi.ID = "uni" \/ mi.ID = "admin"
            THEN Panic(<<"module ID is reserved", mi.ID>>)
          ELSE IF mi.New = NoCtor
            THEN Panic(<<"missing ModuleInfo.New">>)
          ELSE IF CallNew(mi.New) = NoType
            THEN Panic(<<"ModuleInfo.New must return a non-nil module instance">>)
          ELSE IF mi.ID \in DOMAIN modules
            THEN Panic(<<"module already registered", mi.ID>>)
          ELSE /\ modules' = Put(modules, mi.ID, mi)
               /\ UNCHANGED panicMsg
    /\ UNCHANGED <<moduleInstances, cleanupFuncs, apps, failedApps, eventEmitter,
                   stack, calls, trace, canceled>>
    /\ UNCHANGED otherVars

\* GetModule that reads the map without looking at ok
GetModule_NoError(name) ==
    [info |-> IF name \in DOMAIN modules THEN modules[name] ELSE [ID |-> "", New |-> NoCtor],
     err |-> NoErr]

\* GetModule(name): the ModuleInfo and the error it returns
GetModule(name) ==
    IF name \in DOMAIN modules
      THEN [info |-> modules[name], err |-> NoErr]
      ELSE [info |-> [ID |-> "", New |-> NoCtor],
            err |-> <<"module not registered", name>>]

\* ---------------------------------------------------------------- loading

\* a raw configuration: no bytes at all, the JSON null, or a JSON object
RawMsgs ==
    {[kind |-> "empty", keys |-> {}],
     [kind |-> "null", keys |-> {}],
     [kind |-> "object", keys |-> {}],
     [kind |-> "object", keys |-> {"unknown"}]}

\* the identifiers loads are asked for: every one a type declares validly,
\* and one that no type declares
LoadIDs == {"app", "a.b", "nope"}

Ev(ev, call, res) == [ev |-> ev, call |-> call, res |-> res]

\* StrictUnmarshalJSON(rawMsg, &val): an error for a property the type does
\* not declare; "null" leaves val nil
StrictUnmarshalJSON(raw, T) ==
    IF raw.kind = "null" THEN [val |-> NoType, err |-> NoErr]
    ELSE IF raw.kind = "invalid" THEN [val |-> T, err |-> <<"json: syntax error">>]
    ELSE IF raw.kind = "mismatch" THEN [val |-> T, err |-> <<"json: cannot unmarshal">>]
    ELSE IF raw.keys \subseteq Fields(T) THEN [val |-> T, err |-> NoErr]
    ELSE [val |-> T, err |-> <<"json: unknown field">>]

\* a rollback that forgets the Cleanup
Rollback_NoCleanup(tr, k, T, err, cerr) == [trace |-> tr, err |-> err]

\* a rollback that calls Cleanup again when it failed
Rollback_Retry(tr, k, T, err, cerr) ==
    IF "CleanerUpper" \in Caps(T)
      THEN [trace |-> IF cerr # NoErr
                        THEN tr \o <<Ev("Cleanup", k, cerr), Ev("Cleanup", k, cerr)>>
                        ELSE Append(tr, Ev("Cleanup", k, cerr)),
            err |-> IF cerr # NoErr
                      THEN err \o <<"; additionally, cleanup:">> \o cerr
                      ELSE err]
      ELSE [trace |-> tr, err |-> err]

\* a rollback that returns the error of a failed Cleanup for the error of
\* the step
Rollback_ReplacesError(tr, k, T, err, cerr) ==
    IF "CleanerUpper" \in Caps(T)
      THEN [trace |-> Append(tr, Ev("Cleanup", k, cerr)),
            err |-> IF cerr # NoErr THEN cerr ELSE err]
      ELSE [trace |-> tr, err |-> err]

\* a rollback that also cleans up the instances loaded before the failure
Rollback_CleansLoaded(tr, k, T, err, cerr) ==
    LET loaded == SelectSeq(tr, LAMBDA e : e.ev = "Return" /\ e.res = NoErr)
        tr1 == IF "CleanerUpper" \in Caps(T) THEN Append(tr, Ev("Cleanup", k, cerr)) ELSE tr
    IN [trace |-> tr1 \o [i \in DOMAIN loaded |-> Ev("Cleanup", loaded[i].call, NoErr)],
        err |-> IF "CleanerUpper" \in Caps(T) /\ cerr # NoErr
                  THEN err \o <<"; additionally, cleanup:">> \o cerr
                  ELSE err]

\* the rollback of a failed step: Cleanup() if the instance is a CleanerUpper,
\* its error folded into err.  [trace, err]
Rollback(tr, k, T, err, cerr) ==
    IF "CleanerUpper" \in Caps(T)
      THEN [trace |-> Append(tr, Ev("Cleanup", k, cerr)),
            err |-> IF cerr # NoErr
                      THEN err \o <<"; additionally, cleanup:">> \o cerr
                      ELSE err]
      ELSE [trace |-> tr, err |-> err]

\* a lifecycle that validates before it looks at the error of Provision
Lifecycle_ValidateAnyway(tr, k, id, T, perr, verr, cerr) ==
    LET tr1 == IF "Validator" \in Caps(T) THEN Append(tr, Ev("Validate", k, verr)) ELSE tr
    IN IF perr # NoErr
         THEN LET rb == Rollback(tr1, k, T, perr, cerr)
              IN [trace |-> rb.trace, err |-> rb.err, ret |-> <<"provision", id>> \o rb.err]
       ELSE IF "Validator" \in Caps(T) /\ verr # NoErr
         THEN LET rb == Rollback(tr1, k, T, verr, cerr)
              IN [trace |-> rb.trace, err |-> rb.err,
                  ret |-> <<id, "invalid configuration">> \o rb.err]
       ELSE [trace |-> tr1, err |-> NoErr, ret |-> NoErr]

\* LoadModuleByID from the return of Provision (perr; NoErr when the instance
\* is no Provisioner) to its own return: the calls it makes, appended to tr,
\* its variable err at the return, and the error it returns
Lifecycle(tr, k, id, T, perr, verr, cerr) ==
    IF perr # NoErr
      THEN LET rb == Rollback(tr, k, T, perr, cerr)
           IN [trace |-> rb.trace, err |-> rb.err, ret |-> <<"provision", id>> \o rb.err]
    ELSE IF "Validator" \in Caps(T)
      THEN LET tr1 == Append(tr, Ev("Validate", k, verr))
           IN IF verr # NoErr
                THEN LET rb == Rollback(tr1, k, T, verr, cerr)
                     IN [trace |-> rb.trace, err |-> rb.err,
                         ret |-> <<id, "invalid configuration">> \o rb.err]
                ELSE [trace |-> tr1, err |-> NoErr, ret |-> NoErr]
    ELSE [trace |-> tr, err |-> NoErr, ret |-> NoErr]

\* the instance recorded as soon as it exists, whatever the load returns
InstancesAfterLoad_Always(m, id, k, ret) ==
    Put(m, id, Append(IF id \in DOMAIN m THEN m[id] ELSE <<>>, k))

\* a record that forgets the instances loaded before under the identifier
InstancesAfterLoad_Replace(m, id, k, ret) ==
    IF ret = NoErr THEN Put(m, id, <<k>>) ELSE m

\* ctx.moduleInstances[id] = append(ctx.moduleInstances[id], val), which a
\* load reaches only when it has not returned an error before
InstancesAfterLoad(m, id, k, ret) ==
    IF ret = NoErr
      THEN Put(m, id, Append(IF id \in DOMAIN m THEN m[id] ELSE <<>>, k))
      ELSE m

\* an event emitter that need not be an App
EmitterAfterLoad_AnyEmitter(ee, k, T, ret) ==
    IF ret = NoErr /\ "eventEmitter" \in Caps(T) THEN k ELSE ee

\* ctx.cfg.eventEmitter after a load
EmitterAfterLoad(ee, k, T, ret) ==
    IF ret = NoErr /\ "eventEmitter" \in Caps(T) /\ "App" \in Caps(T) THEN k ELSE ee

\* a load that keeps no reference to an App before it provisions it
AppsAfterNew_Never(a, id, k, T) == a

\* ctx.cfg.apps when the instance exists: ctx.cfg.apps[id] = appModule if it
\* is an App
AppsAfterNew(a, id, k, T) == IF "App" \in Caps(T) THEN Put(a, id, k) ELSE a

\* a load that never records the failure of an App
FailedAppsAfterLoad_Never(fa, id, T, err) == fa

\* the deferred function of LoadModuleByID: an App whose load ends with err set
FailedAppsAfterLoad(fa, id, T, err) ==
    IF "App" \in Caps(T) /\ err # NoErr THEN Put(fa, id, err) ELSE fa

\* a name extraction that leaves the name in the object
getModuleNameInline_KeepsKey(moduleNameKey, raw) ==
    IF raw.kind # "object"
      THEN [name |-> "", raw |-> raw, err |-> <<"not an object">>]
    ELSE IF moduleNameKey \notin raw.keys
      THEN [name |-> "", raw |-> raw, err |-> <<"key missing", moduleNameKey>>]
    ELSE IF moduleNameKey \notin DOMAIN raw.strs
      THEN [name |-> "", raw |-> raw, err |-> <<"key not a string", moduleNameKey>>]
    ELSE IF raw.strs[moduleNameKey] = ""
      THEN [name |-> "", raw |-> raw, err |-> <<"empty name", moduleNameKey>>]
    ELSE [name |-> raw.strs[moduleNameKey], raw |-> raw, err |-> NoErr]

\* getModuleNameInline(moduleNameKey, raw): the module name the object raw
\* carries in its property moduleNameKey, and raw without that property.  A
\* raw that carries names has the field strs, its properties that are strings
getModuleNameInline(moduleNameKey, raw) ==
    IF raw.kind # "object"
      THEN [name |-> "", raw |-> raw, err |-> <<"not an object">>]
    ELSE IF moduleNameKey \notin raw.keys
      THEN [name |-> "", raw |-> raw, err |-> <<"key missing", moduleNameKey>>]
    ELSE IF moduleNameKey \notin DOMAIN raw.strs
      THEN [name |-> "", raw |-> raw, err |-> <<"key not a string", moduleNameKey>>]
    ELSE IF raw.strs[moduleNameKey] = ""
      THEN [name |-> "", raw |-> raw, err |-> <<"empty name", moduleNameKey>>]
    ELSE [name |-> raw.strs[moduleNameKey],
          raw |-> [kind |-> "object",
                   keys |-> raw.keys \ {moduleNameKey},
                   strs |-> [p \in DOMAIN raw.strs \ {moduleNameKey} |-> raw.strs[p]]],
          err |-> NoErr]

\* an entry whose map key is always appended to the namespace
MapEntry_AlwaysQualified(namespace, moduleInlineKey, k, raw) ==
    IF moduleInlineKey = ""
      THEN [id |-> namespace \o "." \o k, raw |-> raw, err |-> NoErr, wrap |-> <<"module name", k>>]
      ELSE LET r == getModuleNameInline(moduleInlineKey, raw)
           IN [id |-> namespace \o "." \o r.name, raw |-> r.raw, err |-> r.err,
               wrap |-> <<"key", k, "loading module", r.name>>]

\* an entry whose map key is taken as the module name whatever the inline key
MapEntry_KeyAsName(namespace, moduleInlineKey, k, raw) ==
    [id |-> IF namespace = "" THEN k ELSE namespace \o "." \o k,
     raw |-> raw, err |-> NoErr, wrap |-> <<"module name", k>>]

\* one entry k -> raw of the map being resolved: the identifier and the
\* configuration LoadModuleByID is called with, or the error of the name
\* extraction, and the context an error of the load is wrapped in.
\* loadModuleMap (no inline key) takes the map key as the name;
\* loadModulesFromRegularMap has loadModuleInline read it from the object
MapEntry(namespace, moduleInlineKey, k, raw) ==
    IF moduleInlineKey = ""
      THEN [id |-> IF namespace = "" THEN k ELSE namespace \o "." \o k,
            raw |-> raw, err |-> NoErr, wrap |-> <<"module name", k>>]
      ELSE LET r == getModuleNameInline(moduleInlineKey, raw)
           IN [id |-> namespace \o "." \o r.name, raw |-> r.raw, err |-> r.err,
               wrap |-> <<"key", k, "loading module", r.name>>]

\* the Go types of the fields that hold maps
MapTypes == {"map[string]json.RawMessage", "[]map[string]json.RawMessage"}

\* what the messages call the entry the resolution rs is at: its map key, or
\* its index in the slice it is an element of (the inner one of two), from 0
EntryKey(rs) ==
    LET p == rs.order[rs.pos]
    IN CASE rs.typ = "map[string]json.RawMessage" -> p
         [] rs.typ = "[]map[string]json.RawMessage" -> p[2]
         [] rs.typ = "[]json.RawMessage" -> p - 1
         [] rs.typ = "[][]json.RawMessage" -> p[2] - 1
         [] OTHER -> 0

\* the context LoadModule wraps the error of an element of a slice in
Position(rs) ==
    IF rs.typ \in {"[]json.RawMessage", "[][]json.RawMessage"}
      THEN <<"position", EntryKey(rs)>>
      ELSE <<>>

\* an element of a slice whose error does not tell its position
InlineEntry_NoPosition(rs, raw) ==
    LET r == getModuleNameInline(rs.moduleInlineKey, raw)
    IN [id |-> rs.namespace \o "." \o r.name, raw |-> r.raw, err |-> r.err,
        wrap |-> <<"loading module", r.name>>]

\* an element that is handed to the load with the property that names it
InlineEntry_WholeObject(rs, raw) ==
    LET r == getModuleNameInline(rs.moduleInlineKey, raw)
    IN [id |-> rs.namespace \o "." \o r.name, raw |-> raw, err |-> r.err,
        wrap |-> Position(rs) \o <<"loading module", r.name>>]

\* loadModuleInline of the element raw of a field that is no map: the
\* identifier and the configuration LoadModuleByID is called with, or the
\* error of the name extraction, and the context LoadModule and
\* loadModuleInline wrap an error of the load in
InlineEntry(rs, raw) ==
    LET r == getModuleNameInline(rs.moduleInlineKey, raw)
    IN [id |-> rs.namespace \o "." \o r.name, raw |-> r.raw, err |-> r.err,
        wrap |-> Position(rs) \o <<"loading module", r.name>>]

\* the entry the running resolution is at
CurrentEntry(rs) ==
    IF rs.typ \in MapTypes
      THEN MapEntry(rs.namespace, rs.moduleInlineKey, EntryKey(rs), rs.val[rs.order[rs.pos]])
      ELSE InlineEntry(rs, rs.val[rs.order[rs.pos]])

\* the resolution rs when the load k returns ret to its caller.  top: the
\* caller is the owner of the Context, not a Provision that is running; the
\* resolution that is running is that caller.  It stores the instance under
\* the map key and goes on, or returns the wrapped error and no map
ReturnTo(rs, k, ret, top) ==
    IF rs.status # "running" \/ ~top THEN rs
    ELSE IF ret = NoErr
      THEN [rs EXCEPT !.mods = Put(@, rs.order[rs.pos], k), !.pos = @ + 1]
    ELSE [rs EXCEPT !.status = "failed", !.mods = <<>>,
                    !.err = CurrentEntry(rs).wrap \o ret]

\* LoadModuleByID from the return of Provision to its own return, which hands
\* the instance or the error to its caller
FinishLoad(k, id, T, tr, perr, verr, cerr) ==
    LET r == Lifecycle(tr, k, id, T, perr, verr, cerr)
        top == IF stack # <<>> /\ stack[Len(stack)].call = k
                 THEN Len(stack) = 1
                 ELSE stack = <<>>
    IN /\ trace' = Append(r.trace, Ev("Return", k, r.ret))
       /\ resolving' = ReturnTo(resolving, k, r.ret, top)
       /\ moduleInstances' = InstancesAfterLoad(moduleInstances, id, k, r.ret)
       /\ eventEmitter' = EmitterAfterLoad(eventEmitter, k, T, r.ret)
       /\ failedApps' = FailedAppsAfterLoad(failedApps, id, T, r.err)

\* an early return that records the error as the failure of an App
FailEarly_MarksFailed(k, id, T, tr, err) ==
    /\ trace' = trace \o tr \o <<Ev("Return", k, err)>>
    /\ calls' = Append(calls, [id |-> id, T |-> T])
    /\ failedApps' = Put(failedApps, id, err)
    /\ resolving' = ReturnTo(resolving, k, err, stack = <<>>)
    /\ UNCHANGED <<moduleInstances, apps, eventEmitter, stack>>

\* an early return of a load that has stored its instance as an App before
FailEarly_StoresApp(k, id, T, tr, err) ==
    /\ trace' = trace \o tr \o <<Ev("Return", k, err)>>
    /\ calls' = Append(calls, [id |-> id, T |-> T])
    /\ resolving' = ReturnTo(resolving, k, err, stack = <<>>)
    /\ apps' = IF "App" \in Caps(T) THEN Put(apps, id, k) ELSE apps
    /\ UNCHANGED <<moduleInstances, failedApps, eventEmitter, stack>>

\* an early return of a load that has recorded its instance before
FailEarly_RecordsInstance(k, id, T, tr, err) ==
    /\ trace' = trace \o tr \o <<Ev("Return", k, err)>>
    /\ calls' = Append(calls, [id |-> id, T |-> T])
    /\ resolving' = ReturnTo(resolving, k, err, stack = <<>>)
    /\ moduleInstances' = IF T # NoType
                             THEN InstancesAfterLoad(moduleInstances, id, k, NoErr)
                             ELSE moduleInstances
    /\ UNCHANGED <<apps, failedApps, eventEmitter, stack>>

\* a load that returns err before it has an instance to provision; tr is
\* what it did before
FailEarly(k, id, T, tr, err) ==
    /\ trace' = trace \o tr \o <<Ev("Return", k, err)>>
    /\ calls' = Append(calls, [id |-> id, T |-> T])
    /\ resolving' = ReturnTo(resolving, k, err, stack = <<>>)
    /\ UNCHANGED <<moduleInstances, apps, failedApps, eventEmitter, stack>>

\* the ancestry of the Context a load is called on: the Context NewContext
\* returned has none, the one Provision was handed has that of its load
CallerAncestry == IF stack = <<>> THEN <<>> ELSE stack[Len(stack)].ancestry

\* ctx.LoadModuleByID(id, rawMsg), up to its call of Provision, or to its
\* return when the instance is no Provisioner.  It is called by the owner of
\* the Context, or by the Provision that is running
LoadModuleByID(id, rawMsg, verr, cerr) ==
    /\ panicMsg = NoErr
    /\ created
    /\ Len(calls) < MaxLoads
    /\ LET k == Len(calls) + 1
           load == <<Ev("Load", k, <<id>>)>>
       IN IF id \notin DOMAIN modules
            THEN FailEarly(k, id, NoType, load, <<"unknown module", id>>)
          ELSE IF modules[id].New = NoCtor
            THEN FailEarly(k, id, NoType, load, <<"module has no constructor", id>>)
          ELSE
            LET T == CallNew(modules[id].New)
                dec == IF rawMsg.kind # "empty"
                         THEN StrictUnmarshalJSON(rawMsg, T)
                         ELSE [val |-> T, err |-> NoErr]
                made == load \o <<Ev("New", k, NoErr)>>
                        \o (IF rawMsg.kind # "empty"
                              THEN <<Ev("Decode", k, dec.err)>> ELSE <<>>)
            IN IF dec.err # NoErr
                 THEN FailEarly(k, id, T, made,
                                <<"decoding module config", id>> \o dec.err)
               ELSE IF dec.val = NoType
                 THEN FailEarly(k, id, T, made, <<"module value cannot be null">>)
               ELSE
                 /\ calls' = Append(calls, [id |-> id, T |-> T])
                 /\ apps' = AppsAfterNew(apps, id, k, T)
                 /\ IF "Provisioner" \in Caps(T)
                      THEN /\ stack' = Append(stack,
                                  [call |-> k, id |-> id, T |-> T,
                                   ancestry |-> Append(CallerAncestry, k)])
                           /\ trace' = trace \o made \o <<Ev("Provision", k, NoErr)>>
                           /\ UNCHANGED <<moduleInstances, failedApps, eventEmitter,
                                          resolving>>
                      ELSE /\ FinishLoad(k, id, T, trace \o made, NoErr, verr, cerr)
                           /\ UNCHANGED stack
    /\ UNCHANGED <<modules, panicMsg, cleanupFuncs, canceled>>
    /\ UNCHANGED auxVars

\* Provision of the innermost running load returns perr, and its
\* LoadModuleByID runs to its return
ProvisionReturn(perr, verr, cerr) ==
    /\ panicMsg = NoErr
    /\ stack # <<>>
    /\ LET f == stack[Len(stack)]
       IN FinishLoad(f.call, f.id, f.T,
                     Append(trace, Ev("ProvisionReturn", f.call, perr)),
                     perr, verr, cerr)
    /\ stack' = SubSeq(stack, 1, Len(stack) - 1)
    /\ UNCHANGED <<modules, panicMsg, cleanupFuncs, apps, calls, canceled>>
    /\ UNCHANGED auxVars

\* ---------------------------------------------------------------- cancel

\* the orders in which a range over a Go map may visit its keys
KeyOrders(m) ==
    {o \in [1..Cardinality(DOMAIN m) -> DOMAIN m] :
        \A i, j \in DOMAIN o : i # j => o[i] # o[j]}

RECURSIVE Flatten(_)
Flatten(ss) == IF ss = <<>> THEN <<>> ELSE Head(ss) \o Flatten(Tail(ss))

\* the instances of each identifier visited last first
CancelOrder_Reversed(m, order) ==
    Flatten([i \in DOMAIN order |->
                [j \in DOMAIN m[order[i]] |-> m[order[i]][Len(m[order[i]]) + 1 - j]]])

\* the instances the cancel function visits, in the order it visits them
CancelOrder(m, order) == Flatten([i \in DOMAIN order |-> m[order[i]]])

RECURSIVE CleanupAll_AbortOnError(_, _)
\* cleanups that stop at the first one that fails
CleanupAll_AbortOnError(insts, fails) ==
    IF insts = <<>> THEN <<>>
    ELSE LET k == Head(insts)
         IN IF "CleanerUpper" \in Caps(calls[k].T)
              THEN IF k \in fails
                     THEN <<Ev("Cleanup", k, <<"cleanup failed">>)>>
                     ELSE <<Ev("Cleanup", k, NoErr)>>
                          \o CleanupAll_AbortOnError(Tail(insts), fails)
              ELSE CleanupAll_AbortOnError(Tail(insts), fails)

RECURSIVE CleanupAll(_, _)
\* the cleanups of the cancel function over the instances insts, of which
\* those in fails return an error (which is logged, and nothing else)
CleanupAll(insts, fails) ==
    IF insts = <<>> THEN <<>>
    ELSE LET k == Head(insts)
             rest == CleanupAll(Tail(insts), fails)
         IN IF "CleanerUpper" \in Caps(calls[k].T)
              THEN <<Ev("Cleanup", k, IF k \in fails THEN <<"cleanup failed">> ELSE NoErr)>>
                   \o rest
              ELSE rest

\* a cancel function that reads the cleanup callbacks of the parent Context
\* when it is called
Cancel_ReadsParent(order, fails) ==
    /\ panicMsg = NoErr
    /\ created
    /\ ~canceled
    /\ order \in KeyOrders(moduleInstances)
    /\ canceled' = TRUE
    /\ trace' = trace
                \o <<Ev("Cancel", NoInst, NoErr), Ev("Done", NoInst, NoErr)>>
                \o [i \in DOMAIN parentCtx.cleanupFuncs |->
                       Ev("Callback", NoInst, <<parentCtx.cleanupFuncs[i]>>)]
                \o CleanupAll(CancelOrder(moduleInstances, order), fails)
                \o <<Ev("CancelReturn", NoInst, NoErr)>>
    /\ UNCHANGED <<modules, panicMsg, moduleInstances, cleanupFuncs, apps, failedApps,
                   eventEmitter, stack, calls>>
    /\ UNCHANGED otherVars

\* a cancel function that runs the exit callbacks of its Context as well
Cancel_RunsExitFuncs(order, fails) ==
    /\ panicMsg = NoErr
    /\ created
    /\ ~canceled
    /\ order \in KeyOrders(moduleInstances)
    /\ canceled' = TRUE
    /\ trace' = trace
                \o <<Ev("Cancel", NoInst, NoErr), Ev("Done", NoInst, NoErr)>>
                \o [i \in DOMAIN cleanupFuncs |-> Ev("Callback", NoInst, <<cleanupFuncs[i]>>)]
                \o [i \in DOMAIN newCtx.exitFuncs |->
                       Ev("ExitCallback", NoInst, <<newCtx.exitFuncs[i]>>)]
                \o CleanupAll(CancelOrder(moduleInstances, order), fails)
                \o <<Ev("CancelReturn", NoInst, NoErr)>>
    /\ UNCHANGED <<modules, panicMsg, moduleInstances, cleanupFuncs, apps, failedApps,
                   eventEmitter, stack, calls>>
    /\ UNCHANGED otherVars

\* a cancel function that cleans the instances up before it runs the
\* callbacks
Cancel_CleanupsFirst(order, fails) ==
    /\ panicMsg = NoErr
    /\ created
    /\ ~canceled
    /\ order \in KeyOrders(moduleInstances)
    /\ canceled' = TRUE
    /\ trace' = trace
                \o <<Ev("Cancel", NoInst, NoErr), Ev("Done", NoInst, NoErr)>>
                \o CleanupAll(CancelOrder(moduleInstances, order), fails)
                \o [i \in DOMAIN cleanupFuncs |-> Ev("Callback", NoInst, <<cleanupFuncs[i]>>)]
                \o <<Ev("CancelReturn", NoInst, NoErr)>>
    /\ UNCHANGED <<modules, panicMsg, moduleInstances, cleanupFuncs, apps, failedApps,
                   eventEmitter, stack, calls>>
    /\ UNCHANGED otherVars

\* the cancel function NewContext returned.  Its owner calls it once: a
\* second call is outside the contract of a Context
Cancel(order, fails) ==
    /\ panicMsg = NoErr
    /\ created
    /\ ~canceled
    /\ order \in KeyOrders(moduleInstances)
    /\ canceled' = TRUE
    /\ trace' = trace
                \o <<Ev("Cancel", NoInst, NoErr), Ev("Done", NoInst, NoErr)>>
                \o [i \in DOMAIN cleanupFuncs |-> Ev("Callback", NoInst, <<cleanupFuncs[i]>>)]
                \o CleanupAll(CancelOrder(moduleInstances, order), fails)
                \o <<Ev("CancelReturn", NoInst, NoErr)>>
    /\ UNCHANGED <<modules, panicMsg, moduleInstances, cleanupFuncs, apps, failedApps,
                   eventEmitter, stack, calls>>
    /\ UNCHANGED otherVars

\* ---------------------------------------------------------------- specification

\* the process has started and NewContext(parent) has returned the Context
\* and its cancel function; nothing is registered yet
Init ==
    /\ modules = EmptyMap
    /\ panicMsg = NoErr
    /\ moduleInstances = EmptyMap
    /\ cleanupFuncs = <<>>
    /\ apps = EmptyMap
    /\ failedApps = EmptyMap
    /\ eventEmitter = NoInst
    /\ stack = <<>>
    /\ calls = <<>>
    /\ trace = <<>>
    /\ canceled = FALSE
    /\ NoAux

ComponentErrs(e) == {NoErr, <<e>>}

Next ==
    \/ \E T \in LifecycleTypes : RegisterModule(T)
    \/ \E id \in LoadIDs, raw \in RawMsgs,
          verr \in ComponentErrs("validate failed"),
          cerr \in ComponentErrs("cleanup failed") :
            LoadModuleByID(id, raw, verr, cerr)
    \/ \E perr \in ComponentErrs("provision failed"),
          verr \in ComponentErrs("validate failed"),
          cerr \in ComponentErrs("cleanup failed") :
            ProvisionReturn(perr, verr, cerr)
    \/ \E order \in KeyOrders(moduleInstances),
          fails \in SUBSET (1..Len(calls)) : Cancel(order, fails)

Spec == Init /\ [][Next]_vars

\* the registry a set S of types with distinct IDs leaves when each has been
\* handed to RegisterModule
Registry(S) ==
    [id \in {TypeID(T) : T \in S} |-> UniModule(CHOOSE T \in S : TypeID(T) = id)]

\* the registries the init phase of a program can leave: RegisterModule is
\* called from the init functions of the packages linked in, before any load
Registries ==
    {Registry(S) : S \in {S \in SUBSET LifecycleTypes :
                            \A a, b \in S : a # b => TypeID(a) # TypeID(b)}}

\* the init phase is over and NewContext(parent) has returned
InitLoads ==
    /\ modules \in Registries
    /\ panicMsg = NoErr
    /\ moduleInstances = EmptyMap
    /\ cleanupFuncs = <<>>
    /\ apps = EmptyMap
    /\ failedApps = EmptyMap
    /\ eventEmitter = NoInst
    /\ stack = <<>>
    /\ calls = <<>>
    /\ trace = <<>>
    /\ canceled = FALSE
    /\ NoAux

\* the loads and the cancellation of one Context, once the init phase is over
NextLoads ==
    \/ \E id \in LoadIDs, raw \in RawMsgs,
          verr \in ComponentErrs("validate failed"),
          cerr \in ComponentErrs("cleanup failed") :
            LoadModuleByID(id, raw, verr, cerr)
    \/ \E perr \in ComponentErrs("provision failed"),
          verr \in ComponentErrs("validate failed"),
          cerr \in ComponentErrs("cleanup failed") :
            ProvisionReturn(perr, verr, cerr)
    \/ \E order \in KeyOrders(moduleInstances),
          fails \in SUBSET (1..Len(calls)) : Cancel(order, fails)

SpecLoads == InitLoads /\ [][NextLoads]_vars

\* the registry alone, over every type a program may hand to RegisterModule
NextRegistry == \E T \in ModuleTypes : RegisterModule(T)

SpecRegistry == Init /\ [][NextRegistry]_vars

\* ---------------------------------------------------------------- reading the trace

\* where in the trace the event ev of call k is
Idx(ev, k) == {i \in DOMAIN trace : trace[i].ev = ev /\ trace[i].call = k}

\* where the run of the cancel function begins and ends in the trace;
\* <<0, 0>> when it has not been called
CancelSpan ==
    IF canceled
      THEN <<CHOOSE i \in DOMAIN trace : trace[i].ev = "Cancel",
             CHOOSE i \in DOMAIN trace : trace[i].ev = "CancelReturn">>
      ELSE <<0, 0>>

\* the cleanups of call k's instance that a load made, and that the cancel
\* function made, span being CancelSpan
RollbackCleanups(k, span) == {c \in Idx("Cleanup", k) : ~(span[1] < c /\ c < span[2])}
CancelCleanups(k, span) == {c \in Idx("Cleanup", k) : span[1] < c /\ c < span[2]}

IsA(k, cap) == cap \in Caps(calls[k].T)

ReturnedOk(k) == \E r \in Idx("Return", k) : trace[r].res = NoErr
ReturnedErr(k) == \E r \in Idx("Return", k) : trace[r].res # NoErr

\* the load k ran while Provision of the load x was running
NestedIn(k, x) ==
    \E p \in Idx("Provision", x), l \in Idx("Load", k) :
        /\ p < l
        /\ \A q \in Idx("ProvisionReturn", x) : l < q

\* ---------------------------------------------------------------- C1

\* C1: a Provisioner that is a CleanerUpper and whose Provision returned an
\* error has had Cleanup called exactly once, after Provision returned and
\* before its load returned, and the load returned an error; it stays exactly
\* once whatever happens later
C1_ProvisionFailureCleanedOnce ==
    \A k \in DOMAIN calls : \A p \in Idx("ProvisionReturn", k) :
        (trace[p].res # NoErr /\ IsA(k, "Provisioner") /\ IsA(k, "CleanerUpper"))
        => /\ Cardinality(Idx("Cleanup", k)) = 1
           /\ \E r \in Idx("Return", k) :
                 /\ trace[r].res # NoErr
                 /\ \A c \in Idx("Cleanup", k) : p < c /\ c < r

C1_Witness ==
    \E k \in DOMAIN calls : \E p \in Idx("ProvisionReturn", k) :
        /\ trace[p].res # NoErr
        /\ IsA(k, "CleanerUpper")
        /\ \E r \in Idx("Return", k) :
              trace[r].res # NoErr /\ canceled /\ r < CancelSpan[1]

\* ---------------------------------------------------------------- C2

\* C2: an instance whose Validate returned an error has, if it is a
\* CleanerUpper, had Cleanup called exactly once, between Validate and the
\* return of an error by its load; a load never cleans up an instance it
\* returns without error, and never calls Cleanup twice
C2_ValidateFailureCleanedOnce ==
    LET span == CancelSpan IN
    \A k \in DOMAIN calls :
        /\ \A v \in Idx("Validate", k) :
              (trace[v].res # NoErr /\ IsA(k, "CleanerUpper"))
              => /\ Cardinality(Idx("Cleanup", k)) = 1
                 /\ \E r \in Idx("Return", k) :
                       /\ trace[r].res # NoErr
                       /\ \A c \in Idx("Cleanup", k) : v < c /\ c < r
        /\ ReturnedOk(k) => RollbackCleanups(k, span) = {}
        /\ Cardinality(RollbackCleanups(k, span)) <= 1

C2_Witness ==
    \E k \in DOMAIN calls : \E v \in Idx("Validate", k) :
        /\ trace[v].res # NoErr
        /\ IsA(k, "CleanerUpper")
        /\ \A p \in Idx("ProvisionReturn", k) : trace[p].res = NoErr
        /\ ReturnedErr(k)
        /\ \E k2 \in DOMAIN calls : ReturnedOk(k2) /\ IsA(k2, "CleanerUpper")

\* ---------------------------------------------------------------- C3

\* C3: whatever loads were made, nested ones included, and with the cancel
\* function called, no instance has had Cleanup called more than once
C3_CleanupAtMostOnce ==
    \A k \in DOMAIN calls : Cardinality(Idx("Cleanup", k)) <= 1

\* a load failed and was rolled back after a load nested in it had succeeded,
\* and the Context was canceled then
C3_Witness ==
    /\ canceled
    /\ \E x, y \in DOMAIN calls :
          /\ NestedIn(y, x)
          /\ RollbackCleanups(x, CancelSpan) # {}
          /\ CancelCleanups(y, CancelSpan) # {}
          /\ \A c \in RollbackCleanups(x, CancelSpan) : c < CancelSpan[1]

\* ---------------------------------------------------------------- C4

\* the load k had returned its instance when the cancel function was called
LoadedBeforeCancel(k, span) ==
    \E r \in Idx("Return", k) : trace[r].res = NoErr /\ r < span[1]

\* C4: once the cancel function has run, every CleanerUpper the Context had
\* loaded has had its Cleanup called by it, whether or not other cleanups
\* failed, and the cancel function returned no error
C4_CancelCleansAllDespiteErrors ==
    canceled =>
        LET span == CancelSpan IN
        /\ \A k \in DOMAIN calls :
              (LoadedBeforeCancel(k, span) /\ IsA(k, "CleanerUpper"))
              => CancelCleanups(k, span) # {}
        /\ trace[span[2]].res = NoErr

\* the first of two cleanups of a cancellation failed
C4_Witness ==
    /\ canceled
    /\ \E x, y \in DOMAIN calls :
          \E cx \in CancelCleanups(x, CancelSpan), cy \in CancelCleanups(y, CancelSpan) :
              cx < cy /\ trace[cx].res # NoErr

\* ---------------------------------------------------------------- C5

C6_LifecycleOrder ==
    \A k \in DOMAIN calls :
        /\ ReturnedOk(k) =>
              /\ Cardinality(Idx("Load", k)) = 1
              /\ Cardinality(Idx("New", k)) = 1
              /\ Cardinality(Idx("Decode", k)) <= 1
              /\ \A n \in Idx("New", k), d \in Idx("Decode", k) :
                    n < d /\ trace[d].res = NoErr
              /\ \A d \in Idx("Decode", k), p \in Idx("Provision", k) : d < p
              /\ \A d \in Idx("Decode", k), v \in Idx("Validate", k) : d < v
              /\ Cardinality(Idx("Provision", k)) = (IF IsA(k, "Provisioner") THEN 1 ELSE 0)
              /\ Cardinality(Idx("ProvisionReturn", k)) = Cardinality(Idx("Provision", k))
              /\ Cardinality(Idx("Validate", k)) = (IF IsA(k, "Validator") THEN 1 ELSE 0)
              /\ \A p \in Idx("ProvisionReturn", k) : trace[p].res = NoErr
              /\ \A v \in Idx("Validate", k) : trace[v].res = NoErr
              /\ \A n \in Idx("New", k), p \in Idx("Provision", k) : n < p
              /\ \A p \in Idx("ProvisionReturn", k), v \in Idx("Validate", k) : p < v
              /\ \A n \in Idx("New", k), v \in Idx("Validate", k) : n < v
              /\ \A v \in Idx("Validate", k), r \in Idx("Return", k) : v < r
        /\ (\E p \in Idx("ProvisionReturn", k) : trace[p].res # NoErr)
              => Idx("Validate", k) = {}

C6_Witness ==
    \E k, f \in DOMAIN calls :
        /\ ReturnedOk(k)
        /\ IsA(k, "Provisioner")
        /\ IsA(k, "Validator")
        /\ Idx("Decode", k) # {}
        /\ \E p \in Idx("ProvisionReturn", f) : trace[p].res # NoErr
        /\ IsA(f, "Validator")

\* ---------------------------------------------------------------- C7

\* the names GetModule is asked for
QueryNames == {TypeID(T) : T \in ModuleTypes} \cup {"nope"}

\* C7: when RegisterModule returns, GetModule of the identifier returns the
\* entry just registered, its ID and its constructor; GetModule of a name
\* that is not registered, the empty one included, returns the zero entry and
\* a "module not registered" error
C7_RegisterThenGet ==
    [][/\ \A T \in ModuleTypes :
             (RegisterModule(T) /\ panicMsg' = NoErr)
             => GetModule(TypeID(T))' = [info |-> UniModule(T), err |-> NoErr]
       /\ \A n \in QueryNames :
             /\ n \notin DOMAIN modules
                   => GetModule(n) = [info |-> [ID |-> "", New |-> NoCtor],
                                      err |-> <<"module not registered", n>>]
             /\ n \notin DOMAIN modules'
                   => GetModule(n)' = [info |-> [ID |-> "", New |-> NoCtor],
                                       err |-> <<"module not registered", n>>]]_vars

C7_Witness ==
    /\ GetModule("uni.demo") = [info |-> UniModule("Demo"), err |-> NoErr]
    /\ GetModule("a.b") = [info |-> UniModule("HandlerDup"), err |-> NoErr]
    /\ GetModule("").err = <<"module not registered", "">>
    /\ GetModule("app").err = <<"module not registered", "app">>

\* ---------------------------------------------------------------- C8

\* C8: RegisterModule of an identifier that is registered panics, whatever
\* the constructor, and leaves the registry as it was
C8_DuplicatePanics ==
    [][\A T \in ModuleTypes :
          (RegisterModule(T) /\ TypeID(T) \in DOMAIN modules)
          => /\ panicMsg' # NoErr
             /\ (TypeNew(T) # NoCtor /\ CallNew(TypeNew(T)) # NoType)
                   => panicMsg' = <<"module already registered", TypeID(T)>>
             /\ modules' = modules]_vars

\* a.b was registered by Handler (resp. HandlerDup) and registered again
C8_Witness ==
    /\ panicMsg = <<"module already registered", "a.b">>
    /\ modules["a.b"] = UniModule("Handler")

\* ---------------------------------------------------------------- C9

\* C9: no step removes an entry of the registry or changes it
C9_RegistryAppendOnly ==
    [][\A id \in DOMAIN modules :
          id \in DOMAIN modules' /\ modules'[id] = modules[id]]_vars

\* an entry registered before the loads and the cancellation, and one after
C9_Witness ==
    /\ canceled
    /\ Len(calls) = MaxLoads
    /\ stack = <<>>
    /\ "app" \in DOMAIN modules
    /\ "a.b" \in DOMAIN modules
    /\ \A i \in DOMAIN calls : calls[i].id = "app" /\ calls[i].T = "App"
    /\ panicMsg = <<"module already registered", "a.b">>

\* ---------------------------------------------------------------- C10

\* C10: RegisterModule panics and leaves the registry unchanged for the empty
\* identifier, for "uni" and "admin", for an absent constructor and for a
\* constructor that returns nil; "uni.demo" is accepted
C10_InvalidRegistrationPanics ==
    [][\A T \in ModuleTypes :
          RegisterModule(T) =>
            /\ (\/ TypeID(T) = ""
                \/ TypeID(T) \in {"uni", "admin"}
                \/ TypeNew(T) = NoCtor
                \/ CallNew(TypeNew(T)) = NoType)
                  => panicMsg' # NoErr /\ modules' = modules
            /\ (TypeID(T) = "uni.demo" /\ "uni.demo" \notin DOMAIN modules)
                  => /\ panicMsg' = NoErr
                     /\ modules' = Put(modules, "uni.demo", UniModule(T))]_vars

C10_Witness ==
    /\ panicMsg = <<"module ID is reserved", "admin">>
    /\ "uni.demo" \in DOMAIN modules

\* ---------------------------------------------------------------- concurrent callers of the registry

\* how many goroutines call the registry at the same time
NumGoroutines == 3

\* the other variables, which the concurrent callers of the registry leave alone
contextVars == <<panicMsg, moduleInstances, cleanupFuncs, apps, failedApps,
                 eventEmitter, stack, calls, trace, canceled, listed,
                 created, parentCtx, newCtx, resolving, evaluated, logCore,
                 contexts>>

\* the calls the goroutines make: registrations of one identifier by two
\* types, and lookups of it by GetModule and by LoadModuleByID
ConcCalls ==
    {[op |-> "RegisterModule", arg |-> "Handler"],
     [op |-> "RegisterModule", arg |-> "HandlerDup"],
     [op |-> "GetModule", arg |-> "a.b"],
     [op |-> "LoadModuleByID", arg |-> "a.b"]}

\* the zero ModuleInfo
NoInfo == [ID |-> "", New |-> NoCtor]

\* a goroutine about to make the call c; a panic of RegisterModule is
\* recovered by its caller, who finds the message in panic
Goroutine(c) ==
    [op |-> c.op, arg |-> c.arg, pc |-> "call", panic |-> NoErr,
     got |-> [info |-> NoInfo, err |-> NoErr]]

\* the message RegisterModule panics with before it takes the lock, or NoErr
RegistrationPanic(mi) ==
    IF mi.ID = "" THEN <<"module ID missing">>
    ELSE IF mi.ID = "uni" \/ mi.ID = "admin" THEN <<"module ID is reserved", mi.ID>>
    ELSE IF mi.New = NoCtor THEN <<"missing ModuleInfo.New">>
    ELSE IF CallNew(mi.New) = NoType
      THEN <<"ModuleInfo.New must return a non-nil module instance">>
    ELSE NoErr

\* a write lock that excludes nobody
CanLock_Always(mu) == TRUE

\* modulesMu.Lock() returns when nobody holds the lock
CanLock(mu) == mu.writer = 0 /\ mu.readers = {}

\* modulesMu.RLock() returns when no writer holds the lock
CanRLock(mu) == mu.writer = 0

\* the map entry while modules[id] = mi is being written: the assignment of a
\* two-word struct into a map is no atomic store
Partial(mi) == [ID |-> mi.ID, New |-> NoCtor]

\* RegisterModule up to modulesMu.Lock()
RegisterModuleLock(g) ==
    /\ goroutines[g].op = "RegisterModule"
    /\ goroutines[g].pc = "call"
    /\ LET bad == RegistrationPanic(UniModule(goroutines[g].arg))
       IN IF bad # NoErr
            THEN /\ goroutines' = [goroutines EXCEPT ![g].pc = "done", ![g].panic = bad]
                 /\ UNCHANGED modulesMu
            ELSE /\ CanLock(modulesMu)
                 /\ modulesMu' = [modulesMu EXCEPT !.writer = g]
                 /\ goroutines' = [goroutines EXCEPT ![g].pc = "locked"]
    /\ UNCHANGED modules
    /\ UNCHANGED contextVars

\* the check for a registered ID, under the lock; the panic runs the deferred
\* Unlock
RegisterModuleCheck(g) ==
    /\ goroutines[g].pc = "locked"
    /\ LET mi == UniModule(goroutines[g].arg)
       IN IF mi.ID \in DOMAIN modules
            THEN /\ goroutines' = [goroutines EXCEPT
                        ![g].pc = "done",
                        ![g].panic = <<"module already registered", mi.ID>>]
                 /\ modulesMu' = [modulesMu EXCEPT !.writer = 0]
            ELSE /\ goroutines' = [goroutines EXCEPT ![g].pc = "insert"]
                 /\ UNCHANGED modulesMu
    /\ UNCHANGED modules
    /\ UNCHANGED contextVars

\* modules[string(mi.ID)] = mi begins
RegisterModuleInsert(g) ==
    /\ goroutines[g].pc = "insert"
    /\ LET mi == UniModule(goroutines[g].arg)
       IN modules' = Put(modules, mi.ID, Partial(mi))
    /\ goroutines' = [goroutines EXCEPT ![g].pc = "inserting"]
    /\ UNCHANGED modulesMu
    /\ UNCHANGED contextVars

\* modules[string(mi.ID)] = mi ends, and RegisterModule returns through the
\* deferred Unlock
RegisterModuleReturn(g) ==
    /\ goroutines[g].pc = "inserting"
    /\ LET mi == UniModule(goroutines[g].arg)
       IN modules' = Put(modules, mi.ID, mi)
    /\ goroutines' = [goroutines EXCEPT ![g].pc = "done"]
    /\ modulesMu' = [modulesMu EXCEPT !.writer = 0]
    /\ UNCHANGED contextVars

\* modulesMu.RLock() of GetModule and of LoadModuleByID
LookupRLock(g) ==
    /\ goroutines[g].op \in {"GetModule", "LoadModuleByID"}
    /\ goroutines[g].pc = "call"
    /\ CanRLock(modulesMu)
    /\ modulesMu' = [modulesMu EXCEPT !.readers = @ \cup {g}]
    /\ goroutines' = [goroutines EXCEPT ![g].pc = "rlocked"]
    /\ UNCHANGED modules
    /\ UNCHANGED contextVars

\* m, ok := modules[name], the RUnlock, and what the caller makes of !ok
LookupRead(g) ==
    /\ goroutines[g].pc = "rlocked"
    /\ LET name == goroutines[g].arg
           got == IF goroutines[g].op = "GetModule"
                    THEN GetModule(name)
                    ELSE IF name \in DOMAIN modules
                           THEN [info |-> modules[name], err |-> NoErr]
                           ELSE [info |-> NoInfo, err |-> <<"unknown module", name>>]
       IN goroutines' = [goroutines EXCEPT ![g].pc = "done", ![g].got = got]
    /\ modulesMu' = [modulesMu EXCEPT !.readers = @ \ {g}]
    /\ UNCHANGED modules
    /\ UNCHANGED contextVars

\* the program has started NumGoroutines goroutines, each about to make one
\* call of the registry, which is empty
InitGoroutines ==
    /\ modules = EmptyMap
    /\ panicMsg = NoErr
    /\ moduleInstances = EmptyMap
    /\ cleanupFuncs = <<>>
    /\ apps = EmptyMap
    /\ failedApps = EmptyMap
    /\ eventEmitter = NoInst
    /\ stack = <<>>
    /\ calls = <<>>
    /\ trace = <<>>
    /\ canceled = FALSE
    /\ NoListing
    /\ OneContext
    /\ resolving = NotResolving
    /\ evaluated = NotEvaluated
    /\ logCore = NoLogCore
    /\ contexts = NoContexts
    /\ modulesMu = Unlocked
    /\ goroutines \in [1..NumGoroutines -> {Goroutine(c) : c \in ConcCalls}]

NextGoroutines ==
    \/ \E g \in 1..NumGoroutines : RegisterModuleLock(g)
    \/ \E g \in 1..NumGoroutines : RegisterModuleCheck(g)
    \/ \E g \in 1..NumGoroutines : RegisterModuleInsert(g)
    \/ \E g \in 1..NumGoroutines : RegisterModuleReturn(g)
    \/ \E g \in 1..NumGoroutines : LookupRLock(g)
    \/ \E g \in 1..NumGoroutines : LookupRead(g)

SpecGoroutines == InitGoroutines /\ [][NextGoroutines]_vars

\* ---------------------------------------------------------------- C11

\* the goroutines that register the identifier id
Registering(id) ==
    {g \in DOMAIN goroutines :
        goroutines[g].op = "RegisterModule" /\ TypeID(goroutines[g].arg) = id}

\* those of them whose RegisterModule has returned without a panic
Inserted(id) ==
    {g \in Registering(id) : goroutines[g].pc = "done" /\ goroutines[g].panic = NoErr}

\* C11: at most one of the concurrent registrations of an identifier inserts;
\* once all have ended exactly one has inserted, its entry is the registered
\* one, and every other has panicked with "module already registered"; a
\* concurrent GetModule or LoadModuleByID lookup has found nothing, or the
\* whole entry of the registration that inserted
C11_ConcurrentRegistrationAtomic ==
    /\ \A id \in {"a.b"} :
          /\ Cardinality(Inserted(id)) <= 1
          /\ (Registering(id) # {} /\ \A g \in Registering(id) : goroutines[g].pc = "done")
                => /\ Cardinality(Inserted(id)) = 1
                   /\ \A g \in Inserted(id) : modules[id] = UniModule(goroutines[g].arg)
                   /\ \A g \in Registering(id) \ Inserted(id) :
                         goroutines[g].panic = <<"module already registered", id>>
    /\ \A g \in DOMAIN goroutines :
          (goroutines[g].op # "RegisterModule" /\ goroutines[g].pc = "done") =>
             LET got == goroutines[g].got
                 name == goroutines[g].arg
             IN \/ /\ got.info = NoInfo
                   /\ got.err = <<(IF goroutines[g].op = "GetModule"
                                     THEN "module not registered"
                                     ELSE "unknown module"), name>>
                \/ /\ got.err = NoErr
                   /\ \E r \in Inserted(name) : got.info = UniModule(goroutines[r].arg)

\* two registrations of a.b have ended, and a lookup that ran between the
\* beginning of the first and the end of the second found the entry
C11_Witness ==
    /\ \E a, b \in Registering("a.b") :
          /\ goroutines[a].arg # goroutines[b].arg
          /\ goroutines[a].pc = "done" /\ goroutines[b].pc = "done"
          /\ goroutines[a].panic = NoErr
          /\ goroutines[b].panic # NoErr
    /\ \E g \in DOMAIN goroutines :
          /\ goroutines[g].op # "RegisterModule"
          /\ goroutines[g].pc = "done"
          /\ goroutines[g].got.err = NoErr

\* ---------------------------------------------------------------- GetModules

\* how many modules the registry holds when GetModules is called
MaxRegistered == 3

\* the identifiers registered, and the scopes asked for
ScopeIDs == {"a", "b", "ab", "a.b", "a.bc", "a.c", "a.b.c"}
Scopes == {"", "a", "a.b", "b"}

\* the bytes of a Go string
Bytes(str) ==
    CASE str = "" -> <<>>
      [] str = "a" -> <<"a">>
      [] str = "b" -> <<"b">>
      [] str = "ab" -> <<"a", "b">>
      [] str = "a.b" -> <<"a", ".", "b">>
      [] str = "a.bc" -> <<"a", ".", "b", "c">>
      [] str = "a.c" -> <<"a", ".", "c">>
      [] str = "a.b.c" -> <<"a", ".", "b", ".", "c">>

\* the value of a byte
Code(c) ==
    CASE c = "." -> 46
      [] c = "a" -> 97
      [] c = "b" -> 98
      [] c = "c" -> 99

RECURSIVE Split(_)
\* strings.Split(s, "."), on the bytes of s
Split(bs) ==
    IF \A i \in DOMAIN bs : bs[i] # "."
      THEN <<bs>>
      ELSE LET i == CHOOSE i \in DOMAIN bs :
                        bs[i] = "." /\ \A j \in 1..(i - 1) : bs[j] # "."
           IN <<SubSeq(bs, 1, i - 1)>> \o Split(SubSeq(bs, i + 1, Len(bs)))

RECURSIVE BytesLess(_, _)
\* a < b on Go strings: the bytes compared from the left
BytesLess(a, b) ==
    IF b = <<>> THEN FALSE
    ELSE IF a = <<>> THEN TRUE
    ELSE IF Code(Head(a)) # Code(Head(b)) THEN Code(Head(a)) < Code(Head(b))
    ELSE BytesLess(Tail(a), Tail(b))

\* the func handed to sort.Slice
LessID(x, y) == BytesLess(Bytes(x.ID), Bytes(y.ID))

RECURSIVE Insert(_, _)
Insert(sorted, m) ==
    IF sorted = <<>> THEN <<m>>
    ELSE IF LessID(m, Head(sorted)) THEN <<m>> \o sorted
    ELSE <<Head(sorted)>> \o Insert(Tail(sorted), m)

RECURSIVE SortSlice(_)
\* sort.Slice(mods, less): the IDs are distinct, so every sorting algorithm
\* gives this result
SortSlice(mods) ==
    IF mods = <<>> THEN <<>> ELSE Insert(SortSlice(Tail(mods)), Head(mods))

\* the loop body of GetModules: whether the module id is in scope
InScope(scopeParts, id) ==
    LET modParts == Split(Bytes(id))
    IN /\ Len(modParts) = Len(scopeParts) + 1
       /\ \A i \in DOMAIN scopeParts : modParts[i] = scopeParts[i]

\* GetModules that returns the modules in the order the map gave them
GetModulesResult_Unsorted(scope, order) ==
    LET scopeParts == IF scope = "" THEN <<>> ELSE Split(Bytes(scope))
        IsIn(i) == InScope(scopeParts, order[i])
    IN [i \in DOMAIN SelectSeq([i \in DOMAIN order |-> i], IsIn) |->
           modules[order[SelectSeq([j \in DOMAIN order |-> j], IsIn)[i]]]]

\* what GetModules(scope) returns when the range over the map visits the
\* identifiers in the order order
GetModulesResult(scope, order) ==
    LET scopeParts == IF scope = "" THEN <<>> ELSE Split(Bytes(scope))
        IsIn(i) == InScope(scopeParts, order[i])
        picked == SelectSeq([i \in DOMAIN order |-> i], IsIn)
    IN SortSlice([i \in DOMAIN picked |-> modules[order[picked[i]]]])

\* GetModules(scope)
GetModules(scope, order) ==
    /\ order \in KeyOrders(modules)
    /\ listed' = [scope |-> scope, mods |-> GetModulesResult(scope, order), called |-> TRUE]
    /\ UNCHANGED <<modules, panicMsg, moduleInstances, cleanupFuncs, apps, failedApps,
                   eventEmitter, stack, calls, trace, canceled, modulesMu, goroutines,
                   created, parentCtx, newCtx, resolving, evaluated, logCore,
                 contexts>>

\* the entry a type that declares the identifier id registers
ScopeInfo(id) == [ID |-> id, New |-> id]

\* the init phase has left up to MaxRegistered of the identifiers registered
InitScopes ==
    /\ \E S \in SUBSET ScopeIDs :
          /\ Cardinality(S) <= MaxRegistered
          /\ modules = [id \in S |-> ScopeInfo(id)]
    /\ panicMsg = NoErr
    /\ moduleInstances = EmptyMap
    /\ cleanupFuncs = <<>>
    /\ apps = EmptyMap
    /\ failedApps = EmptyMap
    /\ eventEmitter = NoInst
    /\ stack = <<>>
    /\ calls = <<>>
    /\ trace = <<>>
    /\ canceled = FALSE
    /\ NoAux

NextScopes == \E scope \in Scopes, order \in KeyOrders(modules) : GetModules(scope, order)

SpecScopes == InitScopes /\ [][NextScopes]_vars

\* ---------------------------------------------------------------- C12

\* the identifier id is the scope, a dot, and one label more: a text without
\* a dot; under the empty scope, id is one label
OneLabelBelow(scope, id) ==
    LET s == Bytes(scope)
        b == Bytes(id)
    IN IF scope = ""
         THEN \A i \in DOMAIN b : b[i] # "."
         ELSE /\ Len(b) > Len(s)
              /\ SubSeq(b, 1, Len(s)) = s
              /\ b[Len(s) + 1] = "."
              /\ \A i \in (Len(s) + 2)..Len(b) : b[i] # "."

\* C12: GetModules(scope) returns each registered entry whose identifier is
\* one label below the scope, once, and no other entry, in strictly ascending
\* order of identifier, whatever order the registry is ranged over in; under
\* scope a.b it does not return a.bc
C12_GetModulesScopeSorted ==
    listed.called =>
        LET mods == listed.mods
            want == {id \in DOMAIN modules : OneLabelBelow(listed.scope, id)}
        IN /\ {mods[i].ID : i \in DOMAIN mods} = want
           /\ Len(mods) = Cardinality(want)
           /\ \A i \in DOMAIN mods : mods[i] = modules[mods[i].ID]
           /\ \A i, j \in DOMAIN mods : i < j => BytesLess(Bytes(mods[i].ID), Bytes(mods[j].ID))
           /\ (listed.scope = "a.b" => \A i \in DOMAIN mods : mods[i].ID # "a.bc")

\* a.b, a.bc and a.c are registered and GetModules("a") has returned them;
\* the map may be ranged over in six orders
C12_Witness ==
    /\ listed.called
    /\ listed.scope = "a"
    /\ DOMAIN modules = {"a.b", "a.bc", "a.c"}
    /\ listed.mods = <<ScopeInfo("a.b"), ScopeInfo("a.bc"), ScopeInfo("a.c")>>

\* ---------------------------------------------------------------- NewContext, OnCancel, OnExit

\* how many callbacks a behaviour registers
MaxCallbacks == 2

\* the callbacks registered, and the Context variables they are registered on:
\* the one handed to NewContext and the one NewContext returned
CallbackNames == {"f", "g"}
ContextNames == {"parent", "c"}

\* what a registration, or NewContext, leaves alone
loadVars == <<modules, panicMsg, moduleInstances, apps, failedApps, eventEmitter,
              stack, calls, canceled, modulesMu, goroutines, listed, resolving,
              evaluated, logCore,
                 contexts>>

Registrations ==
    Len(parentCtx.cleanupFuncs) + Len(parentCtx.exitFuncs)
    + Len(newCtx.cleanupFuncs) + Len(newCtx.exitFuncs)

\* NewContext(parent): the cancel function it returns captures the parent
\* Context by value, its slice of cleanup callbacks as long as it is now
NewContext ==
    /\ panicMsg = NoErr
    /\ ~created
    /\ created' = TRUE
    /\ cleanupFuncs' = parentCtx.cleanupFuncs
    /\ newCtx' = NoCallbacks
    /\ trace' = Append(trace, Ev("NewContext", NoInst, NoErr))
    /\ UNCHANGED <<parentCtx, loadVars>>

\* ctx.OnCancel(f), ctx being the variable named by target
OnCancel(target, f) ==
    /\ panicMsg = NoErr
    /\ Registrations < MaxCallbacks
    /\ IF target = "parent"
         THEN /\ parentCtx' = [parentCtx EXCEPT !.cleanupFuncs = Append(@, f)]
              /\ UNCHANGED newCtx
         ELSE /\ created
              /\ newCtx' = [newCtx EXCEPT !.cleanupFuncs = Append(@, f)]
              /\ UNCHANGED parentCtx
    /\ trace' = Append(trace, Ev("OnCancel", NoInst, <<target, f>>))
    /\ UNCHANGED <<created, cleanupFuncs, loadVars>>

\* ctx.OnExit(f), ctx being the variable named by target
OnExit(target, f) ==
    /\ panicMsg = NoErr
    /\ Registrations < MaxCallbacks
    /\ IF target = "parent"
         THEN /\ parentCtx' = [parentCtx EXCEPT !.exitFuncs = Append(@, f)]
              /\ UNCHANGED newCtx
         ELSE /\ created
              /\ newCtx' = [newCtx EXCEPT !.exitFuncs = Append(@, f)]
              /\ UNCHANGED parentCtx
    /\ trace' = Append(trace, Ev("OnExit", NoInst, <<target, f>>))
    /\ UNCHANGED <<created, cleanupFuncs, loadVars>>

\* a parent Context without callbacks exists; NewContext has not been called;
\* the init phase has registered Handler
InitCallbacks ==
    /\ modules = Registry({"Handler"})
    /\ panicMsg = NoErr
    /\ moduleInstances = EmptyMap
    /\ cleanupFuncs = <<>>
    /\ apps = EmptyMap
    /\ failedApps = EmptyMap
    /\ eventEmitter = NoInst
    /\ stack = <<>>
    /\ calls = <<>>
    /\ trace = <<>>
    /\ canceled = FALSE
    /\ NoGoroutines
    /\ NoListing
    /\ created = FALSE
    /\ parentCtx = NoCallbacks
    /\ newCtx = NoCallbacks
    /\ resolving = NotResolving
    /\ evaluated = NotEvaluated
    /\ logCore = NoLogCore
    /\ contexts = NoContexts

\* the registrations, with loads of a.b without configuration that succeed,
\* and the cancellation
NextCallbacks ==
    \/ NewContext
    \/ \E target \in ContextNames, f \in CallbackNames : OnCancel(target, f)
    \/ \E target \in ContextNames : OnExit(target, "f")
    \/ LoadModuleByID("a.b", [kind |-> "empty", keys |-> {}], NoErr, NoErr)
    \/ ProvisionReturn(NoErr, NoErr, NoErr)
    \/ \E order \in KeyOrders(moduleInstances) : Cancel(order, {})

SpecCallbacks == InitCallbacks /\ [][NextCallbacks]_vars

\* ---------------------------------------------------------------- reading the callbacks

\* the callbacks registered with ev (OnCancel or OnExit) on the Context
\* target before the n-th event of the trace, in the order of registration
RegisteredOn(ev, target, n) ==
    LET IsReg(e) == e.ev = ev /\ e.res[1] = target
        regs == SelectSeq(SubSeq(trace, 1, n - 1), IsReg)
    IN [i \in DOMAIN regs |-> regs[i].res[2]]

\* the callbacks the cancel function has run, in the order it ran them
CallbacksRun ==
    LET IsCallback(e) == e.ev = "Callback"
        cbs == SelectSeq(SubSeq(trace, CancelSpan[1], CancelSpan[2]), IsCallback)
    IN [i \in DOMAIN cbs |-> cbs[i].res[1]]

\* where NewContext is in the trace
NewContextAt == CHOOSE i \in DOMAIN trace : trace[i].ev = "NewContext"

\* ---------------------------------------------------------------- C13

\* C13 as stated: when the cancel function of c has run, every callback
\* registered before on c with OnCancel has been run by it
C13_OwnCallbackRunsOnCancel ==
    canceled =>
        LET own == RegisteredOn("OnCancel", "c", CancelSpan[1])
        IN \A i \in DOMAIN own : \E j \in DOMAIN CallbacksRun : CallbacksRun[j] = own[i]

\* f was registered on c alone, and c was canceled afterwards
C13_Witness ==
    /\ canceled
    /\ RegisteredOn("OnCancel", "c", CancelSpan[1]) = <<"f">>
    /\ RegisteredOn("OnCancel", "parent", CancelSpan[1]) = <<>>

\* ---------------------------------------------------------------- C14

\* C14 as stated: the cancel function runs the callbacks registered on parent
\* by the time of the cancellation, each once per registration, in order
C14_ParentCallbacksAtCancel ==
    canceled => CallbacksRun = RegisteredOn("OnCancel", "parent", CancelSpan[1])

\* C14 as amended: the cancel function runs the callbacks that were
\* registered on parent when NewContext(parent) was called, each once per
\* registration, in the order of registration, and no other callback
C14_ParentCallbacksAtNewContext ==
    canceled => CallbacksRun = RegisteredOn("OnCancel", "parent", NewContextAt)

\* f was registered on parent, NewContext was called, g was registered on
\* parent, and the cancel function ran f
C14_Witness ==
    /\ canceled
    /\ CallbacksRun = <<"f">>
    /\ RegisteredOn("OnCancel", "parent", CancelSpan[1]) = <<"f", "g">>

\* ---------------------------------------------------------------- C15

\* C15: no exit callback has run, whatever was registered with OnExit,
\* whatever was loaded, and whether or not the Context was canceled
C15_ExitCallbacksNeverRunByCancel ==
    \A i \in DOMAIN trace : trace[i].ev # "ExitCallback"

\* exit callbacks were registered on parent before NewContext and on c, an
\* instance was loaded, and c was canceled
C15_Witness ==
    /\ canceled
    /\ RegisteredOn("OnExit", "parent", NewContextAt) # <<>>
    /\ RegisteredOn("OnExit", "c", CancelSpan[1]) # <<>>
    /\ \E k \in DOMAIN calls : LoadedBeforeCancel(k, CancelSpan)

\* ---------------------------------------------------------------- loads without cancellation

\* the loads of one Context, by its owner and by the Provision that is
\* running, while the Context is live
NextApps ==
    \/ \E id \in LoadIDs, raw \in RawMsgs,
          verr \in ComponentErrs("validate failed"),
          cerr \in ComponentErrs("cleanup failed") :
            LoadModuleByID(id, raw, verr, cerr)
    \/ \E perr \in ComponentErrs("provision failed"),
          verr \in ComponentErrs("validate failed"),
          cerr \in ComponentErrs("cleanup failed") :
            ProvisionReturn(perr, verr, cerr)

SpecApps == InitLoads /\ [][NextApps]_vars

\* ---------------------------------------------------------------- C16

\* C16: a LoadModuleByID of an identifier that is not registered returns an
\* "unknown module" error and does nothing else: it constructs nothing, calls
\* no lifecycle method, and leaves the instance map, the application table,
\* the failed-application table, the event emitter and the running loads as
\* they were
C16_UnknownModuleNoSideEffect ==
    [][\A id \in LoadIDs, raw \in RawMsgs,
          verr \in ComponentErrs("validate failed"),
          cerr \in ComponentErrs("cleanup failed") :
          (LoadModuleByID(id, raw, verr, cerr) /\ id \notin DOMAIN modules) =>
             LET k == Len(calls) + 1
             IN /\ trace' = trace \o <<Ev("Load", k, <<id>>),
                                       Ev("Return", k, <<"unknown module", id>>)>>
                /\ calls'[k].T = NoType
                /\ moduleInstances' = moduleInstances
                /\ apps' = apps
                /\ failedApps' = failedApps
                /\ eventEmitter' = eventEmitter
                /\ stack' = stack
                /\ modules' = modules]_vars

\* an identifier that is not registered was asked for by a Provision, with an
\* App in the application table
C16_Witness ==
    /\ stack # <<>>
    /\ apps # EmptyMap
    /\ \E k \in DOMAIN calls :
          /\ calls[k].T = NoType
          /\ \E r \in Idx("Return", k) : trace[r].res = <<"unknown module", calls[k].id>>
          /\ \E x \in DOMAIN calls : NestedIn(k, x)

\* ---------------------------------------------------------------- C17

\* the calls that have stored their instance in the application table under id
StoredApps(id) ==
    {k \in DOMAIN calls :
        calls[k].id = id /\ IsA(k, "App") /\ Idx("Provision", k) # {}}

\* C17 as stated: while the Provision of an App is running, the application
\* table holds this instance under its identifier
C17_AppVisibleDuringProvision ==
    \A i \in DOMAIN stack :
        "App" \in Caps(stack[i].T)
        => /\ stack[i].id \in DOMAIN apps
           /\ apps[stack[i].id] = stack[i].call

\* C17 as amended: an App is stored in the application table before its
\* Provision is called; while its Provision is running the table holds, under
\* its identifier, the instance of the load of that identifier that stored an
\* App last: this instance, unless a load of the same identifier was made
\* from its Provision
C17_LatestAppVisibleDuringProvision ==
    \A i \in DOMAIN stack :
        "App" \in Caps(stack[i].T)
        => LET id == stack[i].id
               k == stack[i].call
           IN /\ id \in DOMAIN apps
              /\ k \in StoredApps(id)
              /\ apps[id] \in StoredApps(id)
              /\ \A x \in StoredApps(id) : x <= apps[id]
              /\ (\A x \in StoredApps(id) : x <= k) => apps[id] = k

\* an App is being provisioned, a load nested in it of another identifier is
\* being provisioned, and the table holds the App
C17_Witness ==
    /\ Len(stack) = 2
    /\ "App" \in Caps(stack[1].T)
    /\ stack[2].id # stack[1].id
    /\ apps[stack[1].id] = stack[1].call

\* ---------------------------------------------------------------- C18

\* C18: the step in which the load of an App returns an error of Provision or
\* of Validate stores that error, the error of a failed rollback cleanup
\* appended, under the identifier in the failed-application table; a step in
\* which a load returns otherwise leaves the table as it was
C18_FailedAppRecorded ==
    [][(trace' # trace /\ trace'[Len(trace')].ev = "Return") =>
          LET e == trace'[Len(trace')]
              id == calls'[e.call].id
              lifecycleFailed ==
                  /\ Len(e.res) >= 2
                  /\ e.res[1] = "provision" \/ e.res[2] = "invalid configuration"
          IN IF "App" \in Caps(calls'[e.call].T) /\ lifecycleFailed
               THEN /\ id \in DOMAIN failedApps'
                    /\ failedApps'[id] = SubSeq(e.res, 3, Len(e.res))
                    /\ failedApps'[id] # NoErr
                    /\ \A x \in DOMAIN failedApps : x # id =>
                          x \in DOMAIN failedApps' /\ failedApps'[x] = failedApps[x]
               ELSE failedApps' = failedApps]_vars

\* the load of an App failed in Validate, its rollback cleanup failed too, and
\* a later load of the identifier succeeded
C18_Witness ==
    /\ "app" \in DOMAIN failedApps
    /\ failedApps["app"] = <<"validate failed", "; additionally, cleanup:", "cleanup failed">>
    /\ \E k \in DOMAIN calls :
          /\ IsA(k, "App")
          /\ ReturnedOk(k)
          /\ \E f \in DOMAIN calls : f < k /\ IsA(f, "App") /\ ReturnedErr(f)

\* ---------------------------------------------------------------- map fields

\* the keys of a map whose keys are module names, the keys of a map whose
\* keys mean something else to its owner (one of them is a module name all
\* the same), and the namespaces of the fields
NameKeys == {"b", "c", "app"}
OpaqueKeys == {"b", "route"}
Namespaces == {"a", ""}

\* the property that carries the module name when there is an inline key
InlineKey == "module"

\* the values of a ModuleMap: objects with no property, and with one
NameKeyedRaws ==
    {[kind |-> "object", keys |-> {}],
     [kind |-> "object", keys |-> {"timeout"}]}

\* the values of a map with an inline key: objects that name a module, with or
\* without a further property, and objects whose name is missing, is no
\* string, or is empty
InlineRaws ==
    {[kind |-> "object", keys |-> {InlineKey}, strs |-> [module |-> "b"]],
     [kind |-> "object", keys |-> {InlineKey, "timeout"}, strs |-> [module |-> "b"]],
     [kind |-> "object", keys |-> {InlineKey}, strs |-> [module |-> "c"]],
     [kind |-> "object", keys |-> {"timeout"}, strs |-> EmptyMap],
     [kind |-> "object", keys |-> {InlineKey}, strs |-> EmptyMap],
     [kind |-> "object", keys |-> {InlineKey}, strs |-> [module |-> ""]]}

\* the maps with keys among K and values among R that a resolution has the
\* loads for
MapsOf(K, R) ==
    UNION {[S -> R] : S \in {S \in SUBSET K : Cardinality(S) <= MaxLoads}}

\* the map fields of the configuration structs: a ModuleMap without inline
\* key, or a map with the inline key
MapFields ==
    {[moduleInlineKey |-> "", val |-> v] : v \in MapsOf(NameKeys, NameKeyedRaws)}
    \cup {[moduleInlineKey |-> InlineKey, val |-> v] : v \in MapsOf(OpaqueKeys, InlineRaws)}

\* every variable but resolving
resolvedVars == <<modules, panicMsg, moduleInstances, cleanupFuncs, apps, failedApps,
                  eventEmitter, stack, calls, trace, canceled, auxVars>>

\* loadModulesFromSomeMap(namespace, moduleInlineKey, val), called by the
\* owner of the Context, up to the first iteration of loadModuleMap or of
\* loadModulesFromRegularMap, whose range visits the keys of val in order.
\* val is a map[string]json.RawMessage, which is a ModuleMap
loadModulesFromSomeMap(namespace, moduleInlineKey, val, order) ==
    /\ panicMsg = NoErr
    /\ created
    /\ stack = <<>>
    /\ resolving.status = "idle"
    /\ order \in KeyOrders(val)
    /\ resolving' = [status |-> "running", typ |-> "map[string]json.RawMessage",
                     namespace |-> namespace, moduleInlineKey |-> moduleInlineKey,
                     field |-> val, val |-> val, order |-> order, pos |-> 1,
                     mods |-> EmptyMap, result |-> <<>>, err |-> NoErr]
    /\ UNCHANGED resolvedVars

\* one iteration of loadModuleMap: the load of the module the key names, up
\* to its call of Provision or to its return
loadModuleMap(verr, cerr) ==
    /\ resolving.status = "running"
    /\ resolving.typ \in MapTypes
    /\ resolving.moduleInlineKey = ""
    /\ stack = <<>>
    /\ resolving.pos <= Len(resolving.order)
    /\ LoadModuleByID(CurrentEntry(resolving).id, CurrentEntry(resolving).raw, verr, cerr)

\* one iteration of loadModulesFromRegularMap: loadModuleInline of the value,
\* which returns the error of the name extraction, or loads the module the
\* value names
loadModulesFromRegularMap(verr, cerr) ==
    /\ resolving.status = "running"
    /\ resolving.typ \in MapTypes
    /\ resolving.moduleInlineKey # ""
    /\ stack = <<>>
    /\ resolving.pos <= Len(resolving.order)
    /\ LET e == CurrentEntry(resolving)
       IN IF e.err # NoErr
            THEN /\ panicMsg = NoErr
                 /\ resolving' = [resolving EXCEPT
                                     !.status = "failed", !.mods = <<>>,
                                     !.err = <<"key", EntryKey(resolving)>>
                                             \o e.err]
                 /\ UNCHANGED resolvedVars
            ELSE LoadModuleByID(e.id, e.raw, verr, cerr)

\* the range is over: loadModuleMap or loadModulesFromRegularMap returns the
\* map it built
ReturnMods ==
    /\ panicMsg = NoErr
    /\ resolving.status = "running"
    /\ stack = <<>>
    /\ resolving.pos > Len(resolving.order)
    /\ resolving' = [resolving EXCEPT !.status = "done"]
    /\ UNCHANGED resolvedVars

\* the init phase has registered App, Handler and Checker, and
\* NewContext(parent) has returned
InitMaps ==
    /\ modules = Registry({"App", "Handler", "Checker"})
    /\ panicMsg = NoErr
    /\ moduleInstances = EmptyMap
    /\ cleanupFuncs = <<>>
    /\ apps = EmptyMap
    /\ failedApps = EmptyMap
    /\ eventEmitter = NoInst
    /\ stack = <<>>
    /\ calls = <<>>
    /\ trace = <<>>
    /\ canceled = FALSE
    /\ NoAux

\* one field is resolved, with or without inline key
NextMaps ==
    \/ \E namespace \in Namespaces, field \in MapFields :
          \E order \in KeyOrders(field.val) :
             loadModulesFromSomeMap(namespace, field.moduleInlineKey, field.val, order)
    \/ \E verr \in ComponentErrs("validate failed") : loadModuleMap(verr, NoErr)
    \/ \E verr \in ComponentErrs("validate failed") : loadModulesFromRegularMap(verr, NoErr)
    \/ \E perr \in ComponentErrs("provision failed"),
          verr \in ComponentErrs("validate failed") :
            ProvisionReturn(perr, verr, NoErr)
    \/ ReturnMods

SpecMaps == InitMaps /\ [][NextMaps]_vars

\* ---------------------------------------------------------------- C19

\* the load k returned the instance it made, which it had decoded from a
\* configuration with the properties keys, and which the Context holds
LoadedFrom(k, keys) ==
    /\ k \in DOMAIN calls
    /\ \E i \in DOMAIN trace : trace[i] = Ev("Return", k, NoErr)
    /\ \E i \in DOMAIN trace : trace[i] = Ev("Decode", k, NoErr)
    /\ keys \subseteq Fields(calls[k].T)
    /\ calls[k].id \in DOMAIN moduleInstances
    /\ \E i \in DOMAIN moduleInstances[calls[k].id] : moduleInstances[calls[k].id][i] = k

\* the resolution has returned a map with the keys of its input, each key
\* mapped to the instance of the load made for it
ReturnedMods ==
    /\ resolving.status = "done"
    /\ DOMAIN resolving.mods = DOMAIN resolving.val
    /\ \A key \in DOMAIN resolving.val :
          /\ resolving.mods[key] \in DOMAIN resolving.order
          /\ resolving.order[resolving.mods[key]] = key

\* C19: the resolution of a map field without inline key under the namespace
\* ns loads, for the map key k of every entry it visits, the module ns.k, or
\* the module k when ns is empty, and nothing else.  When it returns a map
\* (no load has failed), it has visited every entry, the map has exactly the
\* keys of the input, and each key is mapped to the instance loaded for it,
\* which was decoded from the value of that key.
C19_NameKeyedMapResolved ==
    (resolving.status # "idle" /\ resolving.moduleInlineKey = "") =>
        /\ Len(calls) <= Len(resolving.order)
        /\ \A k \in DOMAIN calls :
              calls[k].id = IF resolving.namespace = ""
                              THEN resolving.order[k]
                              ELSE resolving.namespace \o "." \o resolving.order[k]
        /\ resolving.status = "done" =>
              /\ ReturnedMods
              /\ \A key \in DOMAIN resolving.val :
                    LoadedFrom(resolving.mods[key], resolving.val[key].keys)

\* a map of two entries under the namespace a has been resolved, one of the
\* values with a property
C19_Witness ==
    /\ resolving.status = "done"
    /\ resolving.moduleInlineKey = ""
    /\ resolving.namespace = "a"
    /\ DOMAIN resolving.val = {"b", "c"}
    /\ resolving.val["b"].keys = {"timeout"}
    /\ calls[resolving.mods["b"]].id = "a.b"
    /\ calls[resolving.mods["c"]].id = "a.c"

\* ---------------------------------------------------------------- C20

\* C20: the resolution of a map field with an inline key never loads the
\* module a map key names: every load it makes is for the identifier
\* namespace + "." + name, name being the string the value of the entry has in
\* the property the inline key designates.  When it returns a map, the map
\* has the keys of the input, each mapped to the instance loaded for its
\* value, which was decoded from the value without that property.
C20_InlineKeyedMapResolved ==
    (resolving.status # "idle" /\ resolving.moduleInlineKey # "") =>
        /\ Len(calls) <= Len(resolving.order)
        /\ \A k \in DOMAIN calls :
              LET raw == resolving.val[resolving.order[k]]
              IN /\ resolving.moduleInlineKey \in DOMAIN raw.strs
                 /\ calls[k].id = resolving.namespace \o "." \o raw.strs[resolving.moduleInlineKey]
        /\ resolving.status = "done" =>
              /\ ReturnedMods
              /\ \A key \in DOMAIN resolving.val :
                    LoadedFrom(resolving.mods[key],
                               resolving.val[key].keys \ {resolving.moduleInlineKey})

\* a map of two entries has been resolved whose key b holds the module a.c and
\* whose key route holds the module a.b
C20_Witness ==
    /\ resolving.status = "done"
    /\ resolving.moduleInlineKey = InlineKey
    /\ DOMAIN resolving.val = {"b", "route"}
    /\ resolving.val["b"].strs[InlineKey] = "c"
    /\ resolving.val["route"].keys = {InlineKey, "timeout"}
    /\ calls[resolving.mods["b"]].id = "a.c"
    /\ calls[resolving.mods["route"]].id = "a.b"

\* ---------------------------------------------------------------- LoadModule

\* how many characters a struct tag has at most
MaxTagLen == 4

RECURSIVE SplitTag(_, _)
\* strings.Split(s, sep) of a string given as the sequence s of its
\* characters: the pieces between the occurrences of sep
SplitTag(s, sep) ==
    IF s = <<>> THEN <<<<>>>>
    ELSE LET rest == SplitTag(Tail(s), sep)
         IN IF Head(s) = sep
              THEN <<<<>>>> \o rest
              ELSE <<<<Head(s)>> \o Head(rest)>> \o Tail(rest)

RECURSIVE Join(_)
\* the string with the characters s
Join(s) == IF s = <<>> THEN "" ELSE Head(s) \o Join(Tail(s))

\* strings.Cut(pair, "="): what is before and after the first "="
Cut(pair) ==
    LET parts == SplitTag(pair, "=")
        before == Head(parts)
    IN [before |-> Join(before),
        after |-> Join(SubSeq(pair, Len(before) + 2, Len(pair))),
        found |-> Len(parts) > 1]

RECURSIVE ParsePairs(_, _)
\* the pairs read one after the other into the map results
ParsePairs(pairs, results) ==
    IF pairs = <<>> THEN [opts |-> results, err |-> NoErr]
    ELSE IF Head(pairs) = <<>> THEN ParsePairs(Tail(pairs), results)
    ELSE LET c == Cut(Head(pairs))
         IN IF ~c.found
              THEN [opts |-> EmptyMap, err |-> <<"missing key in", Join(Head(pairs))>>]
              ELSE ParsePairs(Tail(pairs), Put(results, c.before, c.after))

\* ParseStructTag(tag): the key=value tokens of tag, which spaces separate
ParseStructTag(tag) == ParsePairs(SplitTag(tag, " "), EmptyMap)

\* the characters of the struct tags: the space, the equals sign, and words
\* that hold neither
TagChars == {" ", "=", "namespace", "a"}

\* the struct tags of the fields: every string of up to MaxTagLen characters,
\* and the tags that name an inline key
Tags ==
    UNION {[1..n -> TagChars] : n \in 0..MaxTagLen}
    \cup {<<"namespace", "=", "a", " ", "inline_key", "=", "module">>,
          <<" ", "inline_key", "=", "module", " ", " ", "namespace", "=", "a", " ">>,
          <<"namespace", "=", " ", "inline_key", "=", "module">>,
          <<"inline_key", "=", "module">>,
          <<"namespace", "=", "a", " ", "inline_key">>}

\* the Go types of the fields LoadModule is called on: the five it loads
\* modules from, a slice of something else, and a type that is neither a
\* slice nor a map
FieldTypes ==
    {"json.RawMessage", "[]json.RawMessage", "[][]json.RawMessage",
     "map[string]json.RawMessage", "[]map[string]json.RawMessage",
     "[]string", "string"}

\* the slices of up to MaxLoads values among R
SlicesOf(R) == UNION {[1..n -> R] : n \in 0..MaxLoads}

RECURSIVE Total(_)
\* how many values the slices or maps of the slice ss hold together
Total(ss) == IF ss = <<>> THEN 0 ELSE Cardinality(DOMAIN Head(ss)) + Total(Tail(ss))

\* the values of the elements of the nested slices and of the slices of maps
NestedRaws ==
    {[kind |-> "object", keys |-> {}],
     [kind |-> "object", keys |-> {InlineKey}, strs |-> [module |-> "b"]],
     [kind |-> "object", keys |-> {InlineKey}, strs |-> [module |-> "c"]]}

\* the values a field of the type typ holds, with no more modules to load
\* than MaxLoads
FieldValues(typ) ==
    CASE typ = "json.RawMessage" -> InlineRaws
      [] typ = "[]json.RawMessage" -> SlicesOf(InlineRaws)
      [] typ = "[][]json.RawMessage" ->
            {ss \in SlicesOf(SlicesOf(NestedRaws)) : Total(ss) <= MaxLoads}
      [] typ = "map[string]json.RawMessage" -> {f.val : f \in MapFields}
      [] typ = "[]map[string]json.RawMessage" ->
            {ss \in SlicesOf(MapsOf({"b", "c"}, NestedRaws)) : Total(ss) <= MaxLoads}
      [] typ = "[]string" -> {<<>>, <<"x">>}
      [] OTHER -> {"x"}

\* reflect.Zero(typ)
Zero(typ) ==
    CASE typ = "json.RawMessage" -> [kind |-> "empty", keys |-> {}]
      [] typ = "string" -> ""
      [] OTHER -> <<>>

\* the raw messages of the field, each under its place in the field: its
\* index, its map key, or its index and then its inner index or map key
Elems(typ, field) ==
    CASE typ = "json.RawMessage" -> <<field>>
      [] typ \in {"[][]json.RawMessage", "[]map[string]json.RawMessage"} ->
            [p \in UNION {{<<i, j>> : j \in DOMAIN field[i]} : i \in DOMAIN field} |->
                field[p[1]][p[2]]]
      [] OTHER -> field

\* the orders in which LoadModule may come to the raw messages of the field:
\* slices by index, maps as their range goes
VisitOrders(typ, field) ==
    CASE typ = "json.RawMessage" -> {<<1>>}
      [] typ = "[]json.RawMessage" -> {[i \in DOMAIN field |-> i]}
      [] typ = "[][]json.RawMessage" ->
            {Flatten([i \in DOMAIN field |-> [j \in DOMAIN field[i] |-> <<i, j>>]])}
      [] typ = "map[string]json.RawMessage" -> KeyOrders(field)
      [] typ = "[]map[string]json.RawMessage" ->
            {Flatten([i \in DOMAIN field |-> [n \in DOMAIN os[i] |-> <<i, os[i][n]>>]]) :
                os \in {os \in [DOMAIN field ->
                                  UNION {KeyOrders(field[i]) : i \in DOMAIN field}] :
                           \A i \in DOMAIN field : os[i] \in KeyOrders(field[i])}}
      [] OTHER -> {<<>>}

\* the value LoadModule returns for the field when every load has returned
\* its instance: it mirrors the type of the field
Result(typ, field, mods) ==
    CASE typ = "json.RawMessage" -> mods[1]
      [] typ \in {"[][]json.RawMessage", "[]map[string]json.RawMessage"} ->
            [i \in DOMAIN field |-> [j \in DOMAIN field[i] |-> mods[<<i, j>>]]]
      [] OTHER -> mods

\* the types LoadModule needs an inline key for
InlineTypes == {"json.RawMessage", "[]json.RawMessage", "[][]json.RawMessage"}

\* a call that returns the message as an error where it should panic
LoadModulePanics_Returns(typ, tag, msg) ==
    /\ resolving' = [NotResolving EXCEPT !.status = "failed", !.typ = typ, !.err = msg]
    /\ UNCHANGED <<modules, panicMsg, moduleInstances, cleanupFuncs, apps, failedApps,
                   eventEmitter, stack, calls, canceled, auxVars>>

\* a call that ends in a panic: nothing but the process changes
LoadModulePanics(typ, tag, msg) ==
    /\ panicMsg' = msg
    /\ UNCHANGED <<modules, moduleInstances, cleanupFuncs, apps, failedApps, eventEmitter,
                   stack, calls, canceled, auxVars, resolving>>

\* ctx.LoadModule(structPointer, fieldName), called by the owner of the
\* Context on a field of the type typ with the struct tag tag, up to the
\* first module it loads, or to its return when it loads none
LoadModule(typ, tag, field, order) ==
    /\ panicMsg = NoErr
    /\ created
    /\ stack = <<>>
    /\ resolving.status = "idle"
    /\ order \in VisitOrders(typ, field)
    /\ trace' = Append(trace, Ev("LoadModule", NoInst, <<typ, tag>>))
    /\ LET parsed == ParseStructTag(tag)
           opts == parsed.opts
           inlineModuleKey == IF "inline_key" \in DOMAIN opts THEN opts["inline_key"] ELSE ""
           call == [status |-> "running", typ |-> typ,
                    namespace |-> opts["namespace"], moduleInlineKey |-> inlineModuleKey,
                    field |-> field, val |-> Elems(typ, field), order |-> order,
                    pos |-> 1, mods |-> EmptyMap, result |-> <<>>, err |-> NoErr]
       IN IF parsed.err # NoErr
            THEN LoadModulePanics(typ, tag, <<"malformed tag on field">> \o parsed.err)
          ELSE IF "namespace" \notin DOMAIN opts
            THEN LoadModulePanics(typ, tag, <<"missing 'namespace' key in struct tag on field">>)
          ELSE IF typ \in InlineTypes /\ inlineModuleKey = ""
            THEN LoadModulePanics(typ, tag,
                    <<"unable to determine module name without inline_key">>)
          ELSE /\ resolving' =
                    IF typ \in InlineTypes \cup MapTypes THEN call
                    ELSE IF typ = "[]string"
                      THEN [call EXCEPT !.status = "done", !.field = Zero(typ),
                                        !.mods = <<>>]
                    ELSE [call EXCEPT !.status = "failed", !.mods = <<>>,
                                      !.err = <<"unrecognized type for module", typ>>]
               /\ UNCHANGED <<modules, panicMsg, moduleInstances, cleanupFuncs, apps,
                              failedApps, eventEmitter, stack, calls, canceled, auxVars>>

\* one call of loadModuleInline by LoadModule, for the field itself or for the
\* next element of the slice: it returns the error of the name extraction, or
\* loads the module the value names
loadModuleInline(verr, cerr) ==
    /\ resolving.status = "running"
    /\ resolving.typ \in InlineTypes
    /\ stack = <<>>
    /\ resolving.pos <= Len(resolving.order)
    /\ LET e == CurrentEntry(resolving)
       IN IF e.err # NoErr
            THEN /\ panicMsg = NoErr
                 /\ resolving' = [resolving EXCEPT
                                     !.status = "failed", !.mods = <<>>,
                                     !.err = Position(resolving) \o e.err]
                 /\ UNCHANGED resolvedVars
            ELSE LoadModuleByID(e.id, e.raw, verr, cerr)

\* a return that leaves the raw messages in the field
LoadModuleReturn_KeepsField ==
    /\ panicMsg = NoErr
    /\ resolving.status = "running"
    /\ stack = <<>>
    /\ resolving.pos > Len(resolving.order)
    /\ resolving' = [resolving EXCEPT
                        !.status = "done",
                        !.result = Result(resolving.typ, resolving.field, resolving.mods)]
    /\ UNCHANGED resolvedVars

\* every module of the field is loaded: LoadModule clears the field,
\* val.Set(reflect.Zero(typ)), and returns the result
LoadModuleReturn ==
    /\ panicMsg = NoErr
    /\ resolving.status = "running"
    /\ stack = <<>>
    /\ resolving.pos > Len(resolving.order)
    /\ resolving' = [resolving EXCEPT
                        !.status = "done",
                        !.result = Result(resolving.typ, resolving.field, resolving.mods),
                        !.field = Zero(resolving.typ)]
    /\ UNCHANGED resolvedVars

\* the types of the fields the owner may call LoadModule on now: it makes
\* one call, and none after a panic
CallableTypes ==
    IF resolving.status = "idle" /\ panicMsg = NoErr THEN FieldTypes ELSE {}

\* LoadModule gets past its panics on a field of the type typ with the tag
TagAccepted(typ, tag) ==
    LET parsed == ParseStructTag(tag)
    IN /\ parsed.err = NoErr
       /\ "namespace" \in DOMAIN parsed.opts
       /\ typ \in InlineTypes =>
             ("inline_key" \in DOMAIN parsed.opts /\ parsed.opts["inline_key"] # "")

\* the values of the field a call is made with: LoadModule reads the value
\* after its panics, so that a call that panics is made with the empty field
CalledFields(typ, tag) ==
    IF TagAccepted(typ, tag) THEN FieldValues(typ) ELSE {Zero(typ)}

\* LoadModule is called once, on a field of any type and tag
NextLoadModule ==
    \/ \E typ \in CallableTypes, tag \in Tags :
          \E field \in CalledFields(typ, tag) :
             \E order \in VisitOrders(typ, field) : LoadModule(typ, tag, field, order)
    \/ \E verr \in ComponentErrs("validate failed") : loadModuleInline(verr, NoErr)
    \/ \E verr \in ComponentErrs("validate failed") : loadModuleMap(verr, NoErr)
    \/ \E verr \in ComponentErrs("validate failed") : loadModulesFromRegularMap(verr, NoErr)
    \/ \E perr \in ComponentErrs("provision failed"),
          verr \in ComponentErrs("validate failed") :
            ProvisionReturn(perr, verr, NoErr)
    \/ LoadModuleReturn

SpecLoadModule == InitMaps /\ [][NextLoadModule]_vars

\* ---------------------------------------------------------------- C21

\* LoadModule has returned, one way or the other
Returned == resolving.status \in {"done", "failed"}

\* C21: the resolution of a field whose type is none of the five supported
\* ones, a slice of anything else included, returns the error "unrecognized
\* type for module" and no result, and leaves the field as it was.
C21_UnsupportedShapeIsError ==
    (Returned /\ resolving.typ \notin InlineTypes \cup MapTypes) =>
        /\ resolving.status = "failed"
        /\ resolving.err = <<"unrecognized type for module", resolving.typ>>
        /\ resolving.result = <<>>
        /\ resolving.field = resolving.val

\* LoadModule has returned no error for a field of the type []string, which
\* it has cleared
C21_Witness ==
    /\ resolving.status = "done"
    /\ resolving.typ = "[]string"
    /\ resolving.err = NoErr
    /\ resolving.result = <<>>
    /\ resolving.val = <<"x">>
    /\ resolving.field = <<>>

\* ---------------------------------------------------------------- C22

\* C22: the step in which LoadModule returns without error leaves the zero
\* value of its type in the field; until then, and in the step in which
\* LoadModule returns an error, the field keeps the value LoadModule was
\* called on.
C22_FieldClearedOnSuccessOnly ==
    [][/\ (resolving'.status = "done" /\ resolving.status # "done") =>
              /\ resolving'.err = NoErr
              /\ resolving'.field = Zero(resolving'.typ)
       /\ (resolving.status = "idle" /\ resolving'.status \in {"running", "failed"}) =>
              Elems(resolving'.typ, resolving'.field) = resolving'.val
       /\ (resolving.status = "running" /\ resolving'.status \in {"running", "failed"}) =>
              resolving'.field = resolving.field
       /\ resolving'.status = "failed" => resolving'.err # NoErr]_vars

\* LoadModule has loaded the two modules of a slice and has cleared it
C22_Witness ==
    /\ resolving.status = "done"
    /\ resolving.typ = "[]json.RawMessage"
    /\ Len(resolving.val) = 2
    /\ Len(resolving.result) = 2
    /\ resolving.field = <<>>

\* ---------------------------------------------------------------- functions

\* the properties of the objects names are extracted from, and those of them
\* that may hold the name
PropertyNames == {"handler", "module", "timeout"}
NameProperties == {"handler", "module"}

\* the JSON objects with properties among PropertyNames: a name property
\* holds a number, the empty string or "http", the other one a number
NamedObjects ==
    UNION {{[kind |-> "object", keys |-> K, strs |-> f] :
               f \in UNION {[S -> {"", "http"}] : S \in SUBSET (K \cap NameProperties)}} :
           K \in SUBSET PropertyNames}

\* the raw messages that are no JSON object: null, no bytes at all, and a
\* text that is no JSON
NonObjects ==
    {[kind |-> k, keys |-> {}, strs |-> EmptyMap] : k \in {"null", "empty", "invalid"}}

\* the calls of getModuleNameInline
NameExtractions ==
    {[fn |-> "getModuleNameInline", arg |-> [moduleNameKey |-> K, raw |-> raw],
      out |-> <<>>, returned |-> FALSE] :
        K \in NameProperties, raw \in NamedObjects \cup NonObjects}

\* getModuleNameInline(moduleNameKey, raw) returns
ReturnModuleNameInline ==
    /\ evaluated.fn = "getModuleNameInline"
    /\ ~evaluated.returned
    /\ evaluated' = [evaluated EXCEPT
                        !.out = getModuleNameInline(evaluated.arg.moduleNameKey,
                                                    evaluated.arg.raw),
                        !.returned = TRUE]
    /\ UNCHANGED <<modules, panicMsg, moduleInstances, cleanupFuncs, apps, failedApps,
                   eventEmitter, stack, calls, trace, canceled, modulesMu, goroutines,
                   listed, created, parentCtx, newCtx, resolving, logCore,
                   contexts>>

\* how many bytes a module ID has at most
MaxIDLen == 4

\* the module IDs: the strings of up to MaxIDLen of the bytes ".", "a", "b"
ModuleIDs == UNION {[1..n -> {".", "a", "b"}] : n \in 0..MaxIDLen}

RECURSIVE LastIndex(_, _)
\* strings.LastIndex(s, substr) for a substr of one byte: the index from 0 of
\* its last occurrence in s, or -1
LastIndex(s, substr) ==
    IF s = <<>> THEN -1
    ELSE IF s[Len(s)] = substr THEN Len(s) - 1
    ELSE LastIndex(SubSeq(s, 1, Len(s) - 1), substr)

\* a namespace that ends at the first dot
Namespace_FirstDot(id) ==
    LET first == CHOOSE i \in 0..Len(id) :
                    /\ (i < Len(id) => id[i + 1] = ".")
                    /\ \A j \in 1..i : id[j] # "."
    IN IF first = Len(id) THEN <<>> ELSE SubSeq(id, 1, first)

\* ModuleID.Namespace(): string(id)[:lastDot]
Namespace(id) ==
    LET lastDot == LastIndex(id, ".")
    IN IF lastDot < 0 THEN <<>> ELSE SubSeq(id, 1, lastDot)

\* ModuleID.Name(): s[pos+1:]
Name(id) ==
    LET pos == LastIndex(id, ".")
    IN IF pos = -1 THEN id ELSE SubSeq(id, pos + 2, Len(id))

\* the calls of Namespace and Name on a module ID
IDSplits ==
    {[fn |-> "ModuleID", arg |-> id, out |-> <<>>, returned |-> FALSE] : id \in ModuleIDs}

\* id.Namespace() and id.Name() return
ReturnNamespaceName ==
    /\ evaluated.fn = "ModuleID"
    /\ ~evaluated.returned
    /\ evaluated' = [evaluated EXCEPT
                        !.out = [Namespace |-> Namespace(evaluated.arg),
                                 Name |-> Name(evaluated.arg)],
                        !.returned = TRUE]
    /\ UNCHANGED <<modules, panicMsg, moduleInstances, cleanupFuncs, apps, failedApps,
                   eventEmitter, stack, calls, trace, canceled, modulesMu, goroutines,
                   listed, created, parentCtx, newCtx, resolving, logCore,
                   contexts>>

\* the largest maxToDisplay MaxSizeSubjectsListForLog is called with
MaxToDisplay == 4

\* the subjects of the maps it is called with
SubjectNames == {"a.com", "b.com", "c.com"}

\* strconv.Itoa(n) for the digit d
Digit(d) ==
    CASE d = 0 -> "0" [] d = 1 -> "1" [] d = 2 -> "2" [] d = 3 -> "3" [] d = 4 -> "4"
      [] d = 5 -> "5" [] d = 6 -> "6" [] d = 7 -> "7" [] d = 8 -> "8" [] d = 9 -> "9"

RECURSIVE Itoa(_)
\* strconv.Itoa(n)
Itoa(n) ==
    IF n < 0 THEN "-" \o Itoa(0 - n)
    ELSE IF n < 10 THEN Digit(n)
    ELSE Itoa(n \div 10) \o Digit(n % 10)

\* min(a, b)
Min(a, b) == IF a < b THEN a ELSE b

RECURSIVE RangeSubjects(_, _, _)
\* for domain := range subjects { append; if len(domainsToDisplay) == limit
\* { break } }, the range visiting the keys in the order order
RangeSubjects(order, limit, domainsToDisplay) ==
    IF order = <<>> THEN domainsToDisplay
    ELSE LET appended == Append(domainsToDisplay, Head(order))
         IN IF Len(appended) = limit
              THEN appended
              ELSE RangeSubjects(Tail(order), limit, appended)

\* MaxSizeSubjectsListForLog(subjects, maxToDisplay), the range over the map
\* visiting its keys in the order order
MaxSizeSubjectsListForLog(order, maxToDisplay) ==
    LET total == Len(order)
        limit == Min(total, maxToDisplay)
        domainsToDisplay == RangeSubjects(order, limit, <<>>)
    IN IF total = 0 THEN <<>>
       ELSE IF total > maxToDisplay
         THEN Append(domainsToDisplay,
                     "(and " \o Itoa(total - maxToDisplay) \o " more...)")
       ELSE domainsToDisplay

\* the calls of MaxSizeSubjectsListForLog: every map of subjects, in every
\* order its range may take, with every maxToDisplay
SubjectLists ==
    {[fn |-> "MaxSizeSubjectsListForLog",
      arg |-> [order |-> order, maxToDisplay |-> n],
      out |-> <<>>, returned |-> FALSE] :
        order \in UNION {KeyOrders([k \in S |-> TRUE]) : S \in SUBSET SubjectNames},
        n \in 0..MaxToDisplay}

\* MaxSizeSubjectsListForLog returns
ReturnSubjectsList ==
    /\ evaluated.fn = "MaxSizeSubjectsListForLog"
    /\ ~evaluated.returned
    /\ evaluated' = [evaluated EXCEPT
                        !.out = MaxSizeSubjectsListForLog(evaluated.arg.order,
                                                          evaluated.arg.maxToDisplay),
                        !.returned = TRUE]
    /\ UNCHANGED <<modules, panicMsg, moduleInstances, cleanupFuncs, apps, failedApps,
                   eventEmitter, stack, calls, trace, canceled, modulesMu, goroutines,
                   listed, created, parentCtx, newCtx, resolving, logCore,
                   contexts>>

\* one function without side effect is called, on any of its arguments
InitFunctions ==
    /\ modules = EmptyMap
    /\ panicMsg = NoErr
    /\ moduleInstances = EmptyMap
    /\ cleanupFuncs = <<>>
    /\ apps = EmptyMap
    /\ failedApps = EmptyMap
    /\ eventEmitter = NoInst
    /\ stack = <<>>
    /\ calls = <<>>
    /\ trace = <<>>
    /\ canceled = FALSE
    /\ NoGoroutines
    /\ NoListing
    /\ OneContext
    /\ resolving = NotResolving
    /\ logCore = NoLogCore
    /\ contexts = NoContexts
    /\ \/ evaluated \in NameExtractions
       \/ evaluated \in IDSplits
       \/ evaluated \in SubjectLists

NextFunctions ==
    \/ ReturnModuleNameInline
    \/ ReturnNamespaceName
    \/ ReturnSubjectsList

SpecFunctions == InitFunctions /\ [][NextFunctions]_vars

\* ---------------------------------------------------------------- C23

\* C23: getModuleNameInline(K, raw) of an object raw whose property K is a
\* non-empty string n returns n, no error, and the object with the
\* properties of raw but K, each as it was (the object without properties
\* when K was the only one).  It returns an error when raw has no property
\* K, when that property is no string or is the empty string, and when raw
\* is no object.
C23_NameExtraction ==
    (evaluated.fn = "getModuleNameInline" /\ evaluated.returned) =>
        LET K == evaluated.arg.moduleNameKey
            raw == evaluated.arg.raw
            out == evaluated.out
        IN IF /\ raw.kind = "object"
              /\ K \in raw.keys
              /\ K \in DOMAIN raw.strs
              /\ raw.strs[K] # ""
             THEN /\ out.err = NoErr
                  /\ out.name = raw.strs[K]
                  /\ out.raw.kind = "object"
                  /\ out.raw.keys = raw.keys \ {K}
                  /\ DOMAIN out.raw.strs = DOMAIN raw.strs \ {K}
                  /\ \A p \in DOMAIN out.raw.strs : out.raw.strs[p] = raw.strs[p]
             ELSE out.err # NoErr

\* the name http has been extracted from an object with two more properties,
\* one of them a string
C23_Witness ==
    /\ evaluated.fn = "getModuleNameInline"
    /\ evaluated.returned
    /\ evaluated.arg.moduleNameKey = "handler"
    /\ evaluated.arg.raw.keys = {"handler", "module", "timeout"}
    /\ evaluated.arg.raw.strs = [handler |-> "http", module |-> ""]
    /\ evaluated.out.name = "http"
    /\ evaluated.out.raw.keys = {"module", "timeout"}
    /\ evaluated.out.raw.strs = [module |-> ""]

\* ---------------------------------------------------------------- decoding

\* the raw configurations of the loads that decode: those of RawMsgs, a text
\* that is no JSON, and an object with a property of the wrong type
DecodeMsgs ==
    RawMsgs \cup {[kind |-> "invalid", keys |-> {}],
                  [kind |-> "mismatch", keys |-> {"timeout"}]}

\* loads of any identifier with any configuration, nested or not
NextDecode ==
    \/ \E id \in LoadIDs, raw \in DecodeMsgs,
          verr \in ComponentErrs("validate failed") :
            LoadModuleByID(id, raw, verr, NoErr)
    \/ \E perr \in ComponentErrs("provision failed"),
          verr \in ComponentErrs("validate failed"),
          cerr \in ComponentErrs("cleanup failed") :
            ProvisionReturn(perr, verr, cerr)

SpecDecode == InitLoads /\ [][NextDecode]_vars

\* ---------------------------------------------------------------- C24

\* the raw configuration is not empty and is not what the schema of T admits:
\* it has a property T does not declare, one of the wrong type, or is no JSON
Undecodable(raw, T) ==
    \/ raw.kind \in {"invalid", "mismatch"}
    \/ raw.kind = "object" /\ ~(raw.keys \subseteq Fields(T))

\* C24: a LoadModuleByID of a registered identifier with a configuration
\* that is not empty and that the schema of the instance does not admit
\* constructs the instance, fails at the decoding and returns a "decoding
\* module config" error: it calls neither Provision nor Validate nor
\* Cleanup, and leaves the application table, the failed applications, the
\* instance map, the event emitter and the running loads as they were.  With
\* an empty configuration it does not decode, and goes on with the instance
\* the constructor returned.
C24_StrictDecoding ==
    [][\A id \in LoadIDs, raw \in DecodeMsgs, verr \in ComponentErrs("validate failed") :
          (/\ LoadModuleByID(id, raw, verr, NoErr)
           /\ id \in DOMAIN modules
           /\ modules[id].New # NoCtor) =>
             LET k == Len(calls) + 1
                 T == CallNew(modules[id].New)
                 done == SubSeq(trace', Len(trace) + 1, Len(trace'))
             IN /\ Undecodable(raw, T) =>
                      /\ Len(done) = 4
                      /\ done[1] = Ev("Load", k, <<id>>)
                      /\ done[2] = Ev("New", k, NoErr)
                      /\ done[3].ev = "Decode" /\ done[3].res # NoErr
                      /\ done[4] = Ev("Return", k,
                                      <<"decoding module config", id>> \o done[3].res)
                      /\ apps' = apps
                      /\ failedApps' = failedApps
                      /\ moduleInstances' = moduleInstances
                      /\ eventEmitter' = eventEmitter
                      /\ stack' = stack
                /\ raw.kind = "empty" =>
                      /\ \A i \in DOMAIN done : done[i].ev # "Decode"
                      /\ calls'[k].T = T
                      /\ Len(done) >= 3
                      /\ done[3].ev \in {"Provision", "Validate", "Return"}
                      /\ done[3].ev = "Return" => done[3].res = NoErr
                      /\ "App" \in Caps(T) => (id \in DOMAIN apps' /\ apps'[id] = k)]_vars

\* an App was given a configuration with a property it does not declare, and a
\* Handler no configuration at all; the first load failed at the decoding and
\* the second one provisions its instance
C24_Witness ==
    /\ Len(calls) = 2
    /\ calls[1].T = "App"
    /\ \E i \in Idx("Decode", 1) : trace[i].res = <<"json: unknown field">>
    /\ \E r \in Idx("Return", 1) :
          trace[r].res = <<"decoding module config", "app", "json: unknown field">>
    /\ apps = EmptyMap
    /\ calls[2].T = "Handler"
    /\ Idx("Decode", 2) = {}
    /\ Idx("Provision", 2) # {}

\* ---------------------------------------------------------------- C25

\* C25: for a module ID with a dot, Name is what follows its last dot,
\* Namespace what precedes it, and Namespace + "." + Name is the ID; for a
\* module ID without dot, Namespace is empty and Name is the ID.  The IDs
\* include the empty one and those with a leading, a trailing and a doubled
\* dot.
C25_NamespaceNameSplit ==
    (evaluated.fn = "ModuleID" /\ evaluated.returned) =>
        LET id == evaluated.arg
            ns == evaluated.out.Namespace
            name == evaluated.out.Name
        IN IF \E i \in DOMAIN id : id[i] = "."
             THEN /\ ns \o <<".">> \o name = id
                  /\ \A i \in DOMAIN name : name[i] # "."
             ELSE ns = <<>> /\ name = id

\* the ID "a..b" was split into the namespace "a." and the name "b"
C25_Witness ==
    /\ evaluated.fn = "ModuleID"
    /\ evaluated.returned
    /\ evaluated.arg = <<"a", ".", ".", "b">>
    /\ evaluated.out.Namespace = <<"a", ".">>
    /\ evaluated.out.Name = <<"b">>

\* ---------------------------------------------------------------- C26

\* the struct tag LoadModule was called with
CalledTag == trace[1].res[2]

\* the tokens of the tag t: where each longest run of characters that are no
\* spaces begins and ends
Tokens(t) ==
    {r \in (1..Len(t)) \X (1..Len(t)) :
        /\ r[1] <= r[2]
        /\ \A i \in r[1]..r[2] : t[i] # " "
        /\ r[1] = 1 \/ t[r[1] - 1] = " "
        /\ r[2] = Len(t) \/ t[r[2] + 1] = " "}

\* the tokens of t that read key=value, for the one-word key
TokensOf(t, key) ==
    {r \in Tokens(t) : r[1] < r[2] /\ t[r[1]] = key /\ t[r[1] + 1] = "="}

\* the value the last of these tokens gives the key, "" without one
ValueOf(t, key) ==
    IF TokensOf(t, key) = {} THEN ""
    ELSE LET r == CHOOSE r \in TokensOf(t, key) : \A q \in TokensOf(t, key) : q[1] <= r[1]
         IN Join(SubSeq(t, r[1] + 2, r[2]))

\* some token of t has no "="
Malformed(t) == \E r \in Tokens(t) : \A i \in r[1]..r[2] : t[i] # "="

\* C26: the descriptor is read as key=value tokens separated by spaces, of
\* which any number may lead, trail or follow each other.  LoadModule panics,
\* with no module constructed and nothing changed, when a token has no "="
\* and otherwise when no token gives the key namespace, as with the empty
\* descriptor; else it resolves the field under the namespace and the inline
\* key the descriptor gives them.
C26_DescriptorParsedOrFatal ==
    trace # <<>> =>
        LET t == CalledTag
            untouched == /\ Len(trace) = 1
                         /\ calls = <<>>
                         /\ moduleInstances = EmptyMap
                         /\ apps = EmptyMap
                         /\ failedApps = EmptyMap
                         /\ resolving = NotResolving
        IN /\ Malformed(t) =>
                 /\ panicMsg # NoErr /\ panicMsg[1] = "malformed tag on field"
                 /\ untouched
           /\ (~Malformed(t) /\ TokensOf(t, "namespace") = {}) =>
                 /\ panicMsg = <<"missing 'namespace' key in struct tag on field">>
                 /\ untouched
           /\ (~Malformed(t) /\ TokensOf(t, "namespace") # {}) =>
                 \/ /\ panicMsg = NoErr
                    /\ resolving.status # "idle"
                    /\ resolving.namespace = ValueOf(t, "namespace")
                    /\ resolving.moduleInlineKey = ValueOf(t, "inline_key")
                 \/ /\ panicMsg = <<"unable to determine module name without inline_key">>
                    /\ TokensOf(t, "inline_key") = {}
                    /\ untouched

\* a slice was resolved under the namespace and the inline key of a
\* descriptor with leading, doubled and trailing spaces
C26_Witness ==
    /\ trace # <<>>
    /\ CalledTag = <<" ", "inline_key", "=", "module", " ", " ", "namespace", "=", "a", " ">>
    /\ resolving.status = "done"
    /\ resolving.typ = "[]json.RawMessage"
    /\ resolving.namespace = "a"
    /\ resolving.moduleInlineKey = "module"
    /\ Len(resolving.result) = 1

\* ---------------------------------------------------------------- C27

\* where the cancel function raised Done, ran a callback and cleaned an
\* instance up
DoneAt == {i \in DOMAIN trace : trace[i].ev = "Done"}
CallbacksAt == {i \in DOMAIN trace : trace[i].ev = "Callback"}
CleanupsAt ==
    {i \in DOMAIN trace :
        trace[i].ev = "Cleanup" /\ CancelSpan[1] < i /\ i < CancelSpan[2]}

\* C27: when the cancel function has run, it has raised Done once and before
\* it ran any callback, and it has run every callback it runs, which are
\* those of the parent Context it captured, before it cleaned any instance up
C27_DoneThenCallbacksThenCleanups ==
    canceled =>
        /\ Cardinality(DoneAt) = 1
        /\ \A d \in DoneAt :
              /\ CancelSpan[1] < d
              /\ \A f \in CallbacksAt : d < f
              /\ \A c \in CleanupsAt : d < c
        /\ \A f \in CallbacksAt : \A c \in CleanupsAt : f < c
        /\ CallbacksRun = RegisteredOn("OnCancel", "parent", NewContextAt)
        /\ Cardinality(CallbacksAt) = Len(CallbacksRun)

\* two callbacks of the parent Context have run and two instances have been
\* cleaned up by the cancel function
C27_Witness ==
    /\ canceled
    /\ CallbacksRun = <<"f", "g">>
    /\ Cardinality(CleanupsAt) = 2

\* ---------------------------------------------------------------- C28

\* the cleanups of a rollback that returned an error: where in the trace the
\* Cleanup of call k did
FailedRollbacks(k) == {c \in Idx("Cleanup", k) : trace[c].res # NoErr}

\* C28: when the Cleanup a load calls after a failed Provision or Validate
\* fails as well, the load returns next, and its error is the identifier of
\* the module and the step, then the error of the step, then the error of
\* the Cleanup
C28_CleanupErrorAppended ==
    \A k \in DOMAIN calls : \A c \in FailedRollbacks(k) :
        /\ c > 1 /\ c < Len(trace)
        /\ trace[c - 1].call = k
        /\ trace[c - 1].ev \in {"ProvisionReturn", "Validate"}
        /\ trace[c - 1].res # NoErr
        /\ trace[c + 1] =
              Ev("Return", k,
                 (IF trace[c - 1].ev = "ProvisionReturn"
                    THEN <<"provision", calls[k].id>>
                    ELSE <<calls[k].id, "invalid configuration">>)
                 \o trace[c - 1].res
                 \o <<"; additionally, cleanup:">>
                 \o trace[c].res)

\* the rollback of a failed Provision and the rollback of a failed Validate
\* have both failed
C28_Witness ==
    \E k, l \in DOMAIN calls :
        /\ \E c \in FailedRollbacks(k) : trace[c - 1].ev = "ProvisionReturn"
        /\ \E c \in FailedRollbacks(l) : trace[c - 1].ev = "Validate"
        /\ ReturnedErr(k) /\ ReturnedErr(l)

\* ---------------------------------------------------------------- C29

\* C29: a LoadModuleByID of a registered identifier whose configuration
\* decodes to no instance constructs and decodes, returns "module value
\* cannot be null" and does nothing else: it calls neither Provision nor
\* Validate nor Cleanup, and leaves the application table, the failed
\* applications, the running loads with their ancestry, the instance map and
\* the event emitter as they were
C29_NullInstanceRejected ==
    [][\A id \in LoadIDs, raw \in RawMsgs,
          verr \in ComponentErrs("validate failed"),
          cerr \in ComponentErrs("cleanup failed") :
          (/\ LoadModuleByID(id, raw, verr, cerr)
           /\ id \in DOMAIN modules
           /\ modules[id].New # NoCtor
           /\ raw.kind = "null") =>
             LET k == Len(calls) + 1
             IN /\ trace' = trace \o <<Ev("Load", k, <<id>>),
                                       Ev("New", k, NoErr),
                                       Ev("Decode", k, NoErr),
                                       Ev("Return", k, <<"module value cannot be null">>)>>
                /\ apps' = apps
                /\ failedApps' = failedApps
                /\ stack' = stack
                /\ moduleInstances' = moduleInstances
                /\ eventEmitter' = eventEmitter]_vars

\* the Provision of an App has asked for the same App with a null
\* configuration: the load has returned the error, and the application table
\* still holds the first instance alone
C29_Witness ==
    /\ Len(calls) = 2
    /\ calls[1].T = "App" /\ calls[2].T = "App"
    /\ Len(stack) = 1 /\ stack[1].call = 1
    /\ \E r \in Idx("Return", 2) : trace[r].res = <<"module value cannot be null">>
    /\ Idx("Provision", 2) = {}
    /\ apps = Put(EmptyMap, "app", 1)
    /\ failedApps = EmptyMap
    /\ moduleInstances = EmptyMap

\* ---------------------------------------------------------------- C30

\* the element of the slice at which the resolution has failed: the one whose
\* load has returned an error, or the one after the last load, whose name
\* could not be read
FailedAt ==
    IF calls # <<>> /\ ReturnedErr(Len(calls)) THEN Len(calls) ELSE Len(calls) + 1

\* C30: the resolution of a slice of raw messages makes its k-th load for the
\* k-th element, under the name the element has in the inline key, and makes
\* it only when the loads before have returned their instances.  When it
\* returns a result, the result is as long as the slice and its i-th entry is
\* the instance loaded from the i-th element.  When it returns an error, the
\* error begins with the index, from 0, of the element that failed, and no
\* element after that one has been constructed.
C30_SliceResolvedInOrder ==
    (resolving.status # "idle" /\ resolving.typ = "[]json.RawMessage") =>
        /\ resolving.order = [i \in DOMAIN resolving.val |-> i]
        /\ Len(calls) <= Len(resolving.val)
        /\ \A k \in DOMAIN calls :
              LET raw == resolving.val[k]
              IN /\ resolving.moduleInlineKey \in DOMAIN raw.strs
                 /\ calls[k].id = resolving.namespace \o "." \o raw.strs[resolving.moduleInlineKey]
                 /\ k < Len(calls) => ReturnedOk(k)
        /\ resolving.status = "done" =>
              /\ Len(resolving.result) = Len(resolving.val)
              /\ \A i \in DOMAIN resolving.val :
                    /\ resolving.result[i] = i
                    /\ LoadedFrom(i, resolving.val[i].keys \ {resolving.moduleInlineKey})
        /\ resolving.status = "failed" =>
              /\ FailedAt \in DOMAIN resolving.val
              /\ Len(resolving.err) > 2
              /\ resolving.err[1] = "position"
              /\ resolving.err[2] = FailedAt - 1
              /\ resolving.result = <<>>
              /\ \A i \in DOMAIN trace : trace[i].ev = "New" => trace[i].call <= FailedAt

\* the load of the first of two elements has failed: the error tells the
\* position 0, and nothing was made of the second element
C30_Witness ==
    /\ resolving.status = "failed"
    /\ resolving.typ = "[]json.RawMessage"
    /\ Len(resolving.val) = 2
    /\ Len(calls) = 1
    /\ ReturnedErr(1)
    /\ resolving.err[1] = "position" /\ resolving.err[2] = 0

\* ---------------------------------------------------------------- C31

\* the elements of the slice of slices that the error of the resolution may
\* be about: those at the index the error tells
ElementsNamed ==
    {q \in DOMAIN resolving.val : q[2] - 1 = resolving.err[2]}

\* C31 as stated: when the resolution of a slice of slices fails at the
\* element with the outer index i and the inner index j, the error tells
\* which element it was: no other element of the field is at the place the
\* error names
C31_NestedErrorNamesElement ==
    (resolving.status = "failed" /\ resolving.typ = "[][]json.RawMessage") =>
        /\ resolving.err[1] = "position"
        /\ ElementsNamed = {resolving.order[resolving.pos]}

\* the resolution of two slices of one element each has loaded the first
\* slice and failed at the only element of the second one: the error tells
\* the position 0, which is that of the element of the first slice as well
C31_Witness ==
    /\ resolving.status = "failed"
    /\ resolving.typ = "[][]json.RawMessage"
    /\ Len(resolving.field) = 2
    /\ resolving.order[resolving.pos] = <<2, 1>>
    /\ Len(calls) >= 1 /\ ReturnedOk(1)
    /\ SubSeq(resolving.err, 1, 2) = <<"position", 0>>
    /\ \A i \in 3..Len(resolving.err) : resolving.err[i] # "position"
    /\ ElementsNamed = {<<1, 1>>, <<2, 1>>}

\* ---------------------------------------------------------------- C32

\* ctx.Modules(), ctx being the Context NewContext returned (d = 0) or the
\* Context the d-th running Provision was handed.  LoadModuleByID has a value
\* receiver: it appends the instance to the ancestry of its own copy of the
\* Context, which is the one it hands to Provision, and the Context it was
\* called on keeps the ancestry it had
Modules(d) == IF d = 0 THEN <<>> ELSE stack[d].ancestry

\* ctx.Module(): the last of the ancestry, nil without one
Module(d) == IF Len(Modules(d)) = 0 THEN NoInst ELSE Modules(d)[Len(Modules(d))]

\* the loads made on the Context NewContext returned that have returned
\* their instance
LoadedByOwner ==
    {k \in DOMAIN calls : ReturnedOk(k) /\ ~\E x \in DOMAIN calls : NestedIn(k, x)}

\* C32 as stated: the lineage of the Context NewContext returned holds the
\* instances of the loads made on it that have returned, in the order of
\* their creation, and its current module is the most recent of them; the
\* Context a running Provision was handed has its instance as the last of
\* the lineage
C32_LineageRecorded ==
    /\ \A k \in LoadedByOwner : \E i \in DOMAIN Modules(0) : Modules(0)[i] = k
    /\ \A i, j \in DOMAIN Modules(0) : i < j => Modules(0)[i] < Modules(0)[j]
    /\ LoadedByOwner # {} =>
          (Module(0) # NoInst /\ \A k \in LoadedByOwner : k <= Module(0))
    /\ \A d \in DOMAIN stack : Module(d) = stack[d].call

\* a load on the Context NewContext returned has returned its instance, and
\* the Provision of a second one is running: the lineage of the Context is
\* empty, and that of the Context handed to Provision holds the second
\* instance alone
C32_Witness ==
    /\ Len(calls) = 2
    /\ LoadedByOwner = {1}
    /\ Len(stack) = 1 /\ stack[1].call = 2
    /\ Modules(0) = <<>>
    /\ Module(0) = NoInst
    /\ Modules(1) = <<2>>

\* ---------------------------------------------------------------- event emitters

\* the types of a program with an App that emits events (App), an App that
\* does not (PlainApp) and an emitter of events that is no App (Emitter)
EmitterTypes == {"App", "PlainApp", "Emitter"}

\* the identifiers these types declare
EmitterIDs == {TypeID(T) : T \in EmitterTypes}

\* the init phase has registered the three types and NewContext(parent) has
\* returned
InitEmitters ==
    /\ modules = Registry(EmitterTypes)
    /\ panicMsg = NoErr
    /\ moduleInstances = EmptyMap
    /\ cleanupFuncs = <<>>
    /\ apps = EmptyMap
    /\ failedApps = EmptyMap
    /\ eventEmitter = NoInst
    /\ stack = <<>>
    /\ calls = <<>>
    /\ trace = <<>>
    /\ canceled = FALSE
    /\ NoAux

\* loads of the three types without configuration, by the owner of the
\* Context and by the Provision that is running
NextEmitters ==
    \/ \E id \in EmitterIDs, verr \in ComponentErrs("validate failed") :
          LoadModuleByID(id, [kind |-> "empty", keys |-> {}], verr, NoErr)
    \/ \E perr \in ComponentErrs("provision failed"),
          verr \in ComponentErrs("validate failed") :
            ProvisionReturn(perr, verr, NoErr)

SpecEmitters == InitEmitters /\ [][NextEmitters]_vars

\* ---------------------------------------------------------------- C33

\* C33: a step sets the event emitter of the configuration if and only if a
\* load returns in it without error an instance that is an eventEmitter and an
\* App, and it sets it to that instance; every other step, the return of a
\* failed load and of an instance with one of the two capabilities included,
\* leaves it as it was
C33_EmitterSetBySuccessfulEmittingApp ==
    [][LET returned == Len(trace') > Len(trace) /\ trace'[Len(trace')].ev = "Return"
           ret == trace'[Len(trace')]
       IN IF /\ returned
             /\ ret.res = NoErr
             /\ {"eventEmitter", "App"} \subseteq Caps(calls'[ret.call].T)
            THEN eventEmitter' = ret.call
            ELSE eventEmitter' = eventEmitter]_vars

\* an App that emits events was loaded, and after it an emitter that is no
\* App: the event emitter is the App
C33_Witness ==
    /\ Len(calls) = 2
    /\ calls[1].T = "App" /\ ReturnedOk(1)
    /\ calls[2].T = "Emitter" /\ ReturnedOk(2)
    /\ \E r1 \in Idx("Return", 1), l2 \in Idx("Load", 2) : r1 < l2
    /\ eventEmitter = 1

\* ---------------------------------------------------------------- C34

\* C34: the resolution of a field that holds one raw message has an inline
\* key K; it makes at most one load, of the identifier namespace + "." + name,
\* name being the string the object has in the property K, and the load
\* decodes the object without that property: the decoding fails only for a
\* further property the type does not declare.  The result is the instance
\* of that load.  A call on a field that holds one raw message, or a slice
\* or a slice of slices of them, with a descriptor that gives a namespace and
\* no inline key panics before anything is loaded.
C34_SingleObjectResolved ==
    /\ (resolving.status # "idle" /\ resolving.typ = "json.RawMessage") =>
          LET K == resolving.moduleInlineKey
              raw == resolving.val[1]
          IN /\ K # ""
             /\ Len(calls) <= 1
             /\ \A k \in DOMAIN calls :
                   /\ K \in DOMAIN raw.strs
                   /\ calls[k].id = resolving.namespace \o "." \o raw.strs[K]
                   /\ calls[k].T # NoType => Idx("Decode", k) # {}
                   /\ \A i \in Idx("Decode", k) :
                         trace[i].res = IF raw.keys \ {K} \subseteq Fields(calls[k].T)
                                          THEN NoErr
                                          ELSE <<"json: unknown field">>
             /\ resolving.status = "done" =>
                   /\ resolving.result = 1
                   /\ LoadedFrom(1, raw.keys \ {K})
    /\ (/\ trace # <<>>
        /\ CalledTag # <<>>
        /\ trace[1].res[1] \in InlineTypes
        /\ ~Malformed(CalledTag)
        /\ TokensOf(CalledTag, "namespace") # {}
        /\ ValueOf(CalledTag, "inline_key") = "") =>
          /\ panicMsg = <<"unable to determine module name without inline_key">>
          /\ calls = <<>>
          /\ Len(trace) = 1
          /\ moduleInstances = EmptyMap
          /\ resolving = NotResolving

\* the object {"module": "b", "timeout": ...} of a field under the namespace
\* a was resolved to an instance of a.b, which decoded the timeout
C34_Witness ==
    /\ resolving.status = "done"
    /\ resolving.typ = "json.RawMessage"
    /\ resolving.namespace = "a"
    /\ resolving.moduleInlineKey = InlineKey
    /\ resolving.val[1].keys = {InlineKey, "timeout"}
    /\ calls[1] = [id |-> "a.b", T |-> "Handler"]
    /\ \E i \in Idx("Decode", 1) : trace[i].res = NoErr
    /\ resolving.result = 1

\* ---------------------------------------------------------------- LogBufferCore

\* how many calls of Write and of FlushTo a behaviour makes
MaxWrites == 3
MaxFlushes == 2

\* the levels, messages and field lists of the entries written, and the
\* loggers the buffer is flushed to
Levels == {"debug", "info"}
Messages == {"m"}
FieldLists == {<<>>, <<"f">>}
Loggers == {"l1", "l2"}

\* the zapcore.Entry of the n-th call of Write: its time tells the calls apart
Entry(level, message, n) == [level |-> level, message |-> message, time |-> n]

\* what no operation on a LogBufferCore touches
coreVars == <<modules, panicMsg, moduleInstances, cleanupFuncs, apps, failedApps,
              eventEmitter, stack, calls, trace, canceled, modulesMu, goroutines,
              listed, created, parentCtx, newCtx, resolving, evaluated, contexts>>

\* logger.WithOptions().Check(entry.Level, entry.Message).Write(fields...):
\* the call made on the logger carries the level and the message of the
\* entry, and the fields; of is the entry it was made for
LogCall(logger, entry, fields) ==
    [logger |-> logger, level |-> entry.level, message |-> entry.message,
     fields |-> fields, of |-> entry]

\* the calls FlushTo makes on the logger for the entries it ranges over
FlushCalls(logger, entries, fields) ==
    [idx \in DOMAIN entries |-> LogCall(logger, entries[idx], fields[idx])]

\* c.Write(entry, fields), called by the only user of the core
Write(level, message, fields) ==
    /\ logCore.procs = <<>>
    /\ logCore.written < MaxWrites
    /\ LET entry == Entry(level, message, logCore.written + 1)
       IN logCore' = [logCore EXCEPT
                         !.entries = Append(@, entry),
                         !.fields = Append(@, fields),
                         !.written = @ + 1,
                         !.sent = Append(@, fields),
                         !.returned = @ \cup {entry.time}]
    /\ UNCHANGED coreVars

\* a flush that leaves the entries in the buffer
FlushTo_KeepsBuffer(logger) ==
    /\ logCore.procs = <<>>
    /\ logCore.flushes < MaxFlushes
    /\ logCore' = [logCore EXCEPT
                      !.out = @ \o FlushCalls(logger, logCore.entries, logCore.fields),
                      !.flushes = @ + 1]
    /\ UNCHANGED coreVars

\* c.FlushTo(logger), called by the only user of the core
FlushTo(logger) ==
    /\ logCore.procs = <<>>
    /\ logCore.flushes < MaxFlushes
    /\ logCore' = [logCore EXCEPT
                      !.out = @ \o FlushCalls(logger, logCore.entries, logCore.fields),
                      !.entries = <<>>,
                      !.fields = <<>>,
                      !.flushes = @ + 1]
    /\ UNCHANGED coreVars

\* NewLogBufferCore has returned the core
InitLogBuffer ==
    /\ modules = EmptyMap
    /\ panicMsg = NoErr
    /\ moduleInstances = EmptyMap
    /\ cleanupFuncs = <<>>
    /\ apps = EmptyMap
    /\ failedApps = EmptyMap
    /\ eventEmitter = NoInst
    /\ stack = <<>>
    /\ calls = <<>>
    /\ trace = <<>>
    /\ canceled = FALSE
    /\ NoAux

\* the writes and the flushes of one user of the core
NextLogBuffer ==
    \/ \E level \in Levels, message \in Messages, fields \in FieldLists :
          Write(level, message, fields)
    \/ \E logger \in Loggers : FlushTo(logger)

SpecLogBuffer == InitLogBuffer /\ [][NextLogBuffer]_vars

\* ---------------------------------------------------------------- C35

\* C35: a FlushTo makes on its logger one call for every entry in the
\* buffer, in the order the entries were written, each with the level and
\* the message of the entry and the fields it was written with, and leaves
\* the buffer empty, so that a FlushTo that follows without a Write makes no
\* call; a Write makes no call and puts its entry and its fields last in the
\* buffer; the buffer has as many field lists as entries.
C35_FlushEmitsBufferInOrder ==
    [][LET emitted == SubSeq(logCore'.out, Len(logCore.out) + 1, Len(logCore'.out))
       IN /\ Len(logCore'.entries) = Len(logCore'.fields)
          /\ SubSeq(logCore'.out, 1, Len(logCore.out)) = logCore.out
          /\ logCore'.flushes = logCore.flushes + 1 =>
                /\ \E logger \in Loggers :
                      emitted = [i \in DOMAIN logCore.entries |->
                                    [logger |-> logger,
                                     level |-> logCore.entries[i].level,
                                     message |-> logCore.entries[i].message,
                                     fields |-> logCore.fields[i],
                                     of |-> logCore.entries[i]]]
                /\ logCore'.entries = <<>>
                /\ logCore'.fields = <<>>
          /\ logCore'.written = logCore.written + 1 =>
                /\ emitted = <<>>
                /\ Len(logCore'.entries) = Len(logCore.entries) + 1
                /\ SubSeq(logCore'.entries, 1, Len(logCore.entries)) = logCore.entries
                /\ SubSeq(logCore'.fields, 1, Len(logCore.fields)) = logCore.fields
                /\ logCore'.entries[Len(logCore'.entries)].time = logCore'.written]_vars

\* two entries were written, the first with a field and the second without;
\* a FlushTo has made the two calls in this order, and a second FlushTo right
\* after it none
C35_Witness ==
    /\ logCore.procs = <<>>
    /\ logCore.written = 2
    /\ logCore.flushes = 2
    /\ Len(logCore.out) = 2
    /\ logCore.out[1].of.time = 1 /\ logCore.out[1].fields = <<"f">>
    /\ logCore.out[2].of.time = 2 /\ logCore.out[2].fields = <<>>
    /\ logCore.out[1].logger = logCore.out[2].logger
    /\ logCore.entries = <<>>

\* ---------------------------------------------------------------- C36

\* the entries of the list that are subjects of the map, and those that tell
\* how many more there are
ListedSubjects ==
    {i \in DOMAIN evaluated.out :
        \E j \in DOMAIN evaluated.arg.order : evaluated.out[i] = evaluated.arg.order[j]}

\* C36 as stated: for maxToDisplay >= 0 the list is at most maxToDisplay
\* subjects of the map, no subject twice, followed by one "(and N more...)"
\* with N = total - maxToDisplay exactly when total > maxToDisplay, and the
\* list of an empty map is empty
C36_SubjectsListBounded ==
    (evaluated.fn = "MaxSizeSubjectsListForLog" /\ evaluated.returned) =>
        LET out == evaluated.out
            total == Len(evaluated.arg.order)
            maxToDisplay == evaluated.arg.maxToDisplay
            shown == IF total > maxToDisplay THEN Len(out) - 1 ELSE Len(out)
        IN /\ total = 0 => out = <<>>
           /\ shown >= 0
           /\ shown <= maxToDisplay
           /\ \A i \in 1..shown : i \in ListedSubjects
           /\ \A i, j \in 1..shown : i # j => out[i] # out[j]
           /\ total > maxToDisplay =>
                 out[Len(out)] = "(and " \o Itoa(total - maxToDisplay) \o " more...)"

\* the list of a map of two subjects with maxToDisplay = 0 names both
\* subjects, and then tells that there are two more
C36_Witness ==
    /\ evaluated.fn = "MaxSizeSubjectsListForLog"
    /\ evaluated.returned
    /\ evaluated.arg.maxToDisplay = 0
    /\ evaluated.arg.order = <<"a.com", "b.com">>
    /\ evaluated.out = <<"a.com", "b.com", "(and 2 more...)">>

\* ---------------------------------------------------------------- C37

\* the instances the Context holds under the identifier id
InstancesOf(id) ==
    IF id \in DOMAIN moduleInstances
      THEN {moduleInstances[id][i] : i \in DOMAIN moduleInstances[id]}
      ELSE {}

\* C37: the instance map holds, under each identifier, the instances of the
\* loads of that identifier that have returned without error, each once, and
\* no other: the instance of a load that is running, or that failed at the
\* decoding, in Provision or in Validate, is under no identifier, and the
\* cancel function does not call its Cleanup
C37_InstanceMapIsSuccessfulLoads ==
    LET ok == {trace[r].call : r \in {r \in DOMAIN trace :
                                        trace[r].ev = "Return" /\ trace[r].res = NoErr}}
        span == CancelSpan
    IN /\ \A id \in DOMAIN moduleInstances :
             /\ \A i, j \in DOMAIN moduleInstances[id] :
                   i # j => moduleInstances[id][i] # moduleInstances[id][j]
             /\ InstancesOf(id) = {k \in ok : calls[k].id = id}
       /\ \A k \in ok : k \in InstancesOf(calls[k].id)
       /\ \A k \in DOMAIN calls \ ok :
             /\ \A id \in DOMAIN moduleInstances : k \notin InstancesOf(id)
             /\ \A c \in DOMAIN trace :
                   (trace[c].ev = "Cleanup" /\ trace[c].call = k) =>
                       ~(span[1] < c /\ c < span[2])

\* a load has returned its instance and a load of a CleanerUpper has failed
\* after the instance was constructed; the Context was canceled then, and
\* the cancel function has cleaned the first instance up
C37_Witness ==
    /\ canceled
    /\ \E k, f \in DOMAIN calls :
          /\ ReturnedOk(k)
          /\ k \in InstancesOf(calls[k].id)
          /\ CancelCleanups(k, CancelSpan) # {}
          /\ ReturnedErr(f)
          /\ IsA(f, "CleanerUpper")
          /\ Idx("New", f) # {}

\* ---------------------------------------------------------------- derived Contexts

\* how many Context values a behaviour derives from the first one
MaxContexts == 2

\* what no operation on the Context values touches
derivingVars == <<modules, panicMsg, moduleInstances, cleanupFuncs, apps, failedApps,
                  eventEmitter, stack, calls, trace, canceled, modulesMu, goroutines,
                  listed, created, parentCtx, newCtx, resolving, evaluated, logCore>>

\* the Context values a program starts from: moduleInstances is the map the
\* value refers to, by its place in the heap; the value may have a module in
\* its ancestry and callbacks registered on it
FirstContexts ==
    {[moduleInstances |-> 1, cfg |-> "cfg", ancestry |-> <<>>, cleanupFuncs |-> <<>>,
      exitFuncs |-> <<>>, from |-> 0, how |-> "given"],
     [moduleInstances |-> 1, cfg |-> "cfg", ancestry |-> <<9>>, cleanupFuncs |-> <<"f">>,
      exitFuncs |-> <<"x">>, from |-> 0, how |-> "given"]}

\* the map of the first Context: the instance 9 was loaded under a.b
FirstMaps == {[x \in {"a.b"} |-> <<9>>]}

\* NewContext(ctx), ctx being the p-th Context value: the new Context has a
\* map of its own, made empty, and the cfg of ctx, and nothing else; the
\* cancel function keeps the new Context and a copy of ctx
NewContextFrom(p) ==
    /\ p \in DOMAIN contexts.vals
    /\ Len(contexts.vals) <= MaxContexts
    /\ LET ref == Len(contexts.heap) + 1
           n == Len(contexts.vals) + 1
       IN contexts' = [contexts EXCEPT
             !.heap = Append(@, EmptyMap),
             !.vals = Append(@, [moduleInstances |-> ref, cfg |-> contexts.vals[p].cfg,
                                 ancestry |-> <<>>, cleanupFuncs |-> <<>>,
                                 exitFuncs |-> <<>>, from |-> p, how |-> "NewContext"]),
             !.cancels = Append(@, [newCtx |-> n, moduleInstances |-> ref,
                                    cleanupFuncs |-> contexts.vals[p].cleanupFuncs,
                                    called |-> FALSE])]
    /\ UNCHANGED derivingVars

\* a WithValue that gives the derived Context a copy of the map
WithValue_CopiesMap(c) ==
    /\ c \in DOMAIN contexts.vals
    /\ Len(contexts.vals) <= MaxContexts
    /\ contexts' = [contexts EXCEPT
          !.heap = Append(@, contexts.heap[contexts.vals[c].moduleInstances]),
          !.vals = Append(@, [contexts.vals[c] EXCEPT
                                 !.moduleInstances = Len(contexts.heap) + 1,
                                 !.from = c, !.how = "WithValue"])]
    /\ UNCHANGED derivingVars

\* ctx.WithValue(key, value), ctx being the c-th Context value: the derived
\* Context has the fields of ctx, the reference to its map among them
WithValue(c) ==
    /\ c \in DOMAIN contexts.vals
    /\ Len(contexts.vals) <= MaxContexts
    /\ contexts' = [contexts EXCEPT
          !.vals = Append(@, [contexts.vals[c] EXCEPT !.from = c, !.how = "WithValue"])]
    /\ UNCHANGED derivingVars

\* the loads of the log
LoadsLogged == {i \in DOMAIN contexts.log : contexts.log[i].ev = "Load"}

\* a LoadModuleByID(id, nil) on the c-th Context value that returns its
\* instance, a CleanerUpper: the instance is recorded in the map the value
\* refers to
LoadThrough(c, id) ==
    /\ c \in DOMAIN contexts.vals
    /\ Cardinality(LoadsLogged) < MaxLoads
    /\ LET inst == Cardinality(LoadsLogged) + 1
           ref == contexts.vals[c].moduleInstances
       IN contexts' = [contexts EXCEPT
             !.heap[ref] = InstancesAfterLoad(@, id, inst, NoErr),
             !.log = Append(@, [ev |-> "Load", inst |-> inst, ctx |-> c])]
    /\ UNCHANGED derivingVars

\* the n-th cancel function is called: it runs the callbacks it has, and
\* cleans up the instances in the map of its Context, the range visiting the
\* identifiers in the order order
CancelContext(n, order) ==
    /\ n \in DOMAIN contexts.cancels
    /\ ~contexts.cancels[n].called
    /\ LET m == contexts.heap[contexts.cancels[n].moduleInstances]
           insts == CancelOrder(m, order)
       IN /\ order \in KeyOrders(m)
          /\ contexts' = [contexts EXCEPT
                !.cancels[n].called = TRUE,
                !.log = @ \o <<[ev |-> "Cancel", inst |-> NoInst, ctx |-> n]>>
                          \o [i \in DOMAIN insts |->
                                [ev |-> "Cleanup", inst |-> insts[i], ctx |-> n]]]
    /\ UNCHANGED derivingVars

\* the cancel functions that can be called now, each with the orders its
\* range may take
CancelsNow ==
    {x \in UNION {{<<n, o>> :
                     o \in KeyOrders(contexts.heap[contexts.cancels[n].moduleInstances])} :
                  n \in DOMAIN contexts.cancels} : TRUE}

\* a program holds one Context value
InitContexts ==
    /\ modules = EmptyMap
    /\ panicMsg = NoErr
    /\ moduleInstances = EmptyMap
    /\ cleanupFuncs = <<>>
    /\ apps = EmptyMap
    /\ failedApps = EmptyMap
    /\ eventEmitter = NoInst
    /\ stack = <<>>
    /\ calls = <<>>
    /\ trace = <<>>
    /\ canceled = FALSE
    /\ NoGoroutines
    /\ NoListing
    /\ OneContext
    /\ resolving = NotResolving
    /\ evaluated = NotEvaluated
    /\ logCore = NoLogCore
    /\ \E first \in FirstContexts, m \in FirstMaps :
          contexts = [heap |-> <<m>>, vals |-> <<first>>, cancels |-> <<>>, log |-> <<>>]

\* Contexts are derived, modules are loaded through them, and the cancel
\* functions are called
NextContexts ==
    \/ \E p \in 1..(MaxContexts + 1) : NewContextFrom(p)
    \/ \E c \in 1..(MaxContexts + 1) : WithValue(c)
    \/ \E c \in 1..(MaxContexts + 1), id \in {"a.b", "a.c"} : LoadThrough(c, id)
    \/ \E x \in CancelsNow : CancelContext(x[1], x[2])

SpecContexts == InitContexts /\ [][NextContexts]_vars

\* ---------------------------------------------------------------- C38

RECURSIVE Origin(_)
\* the Context value the c-th one was derived from with WithValue, directly
\* or through others
Origin(c) == IF contexts.vals[c].how = "WithValue" THEN Origin(contexts.vals[c].from) ELSE c

\* the instances in the map the c-th Context value refers to
InstancesIn(c) ==
    LET m == contexts.heap[contexts.vals[c].moduleInstances]
    IN UNION {{m[id][i] : i \in DOMAIN m[id]} : id \in DOMAIN m}

\* C38: a Context NewContext returned has the cfg of the Context it was
\* given, no ancestry and no callback, and a map of its own, which holds
\* nothing but what was loaded through this Context or a Context derived from
\* it with WithValue; a Context derived with WithValue refers to the map of
\* the Context it was derived from; and a cancel function that has been
\* called has cleaned up, once, every instance loaded before through its
\* Context or through a Context derived from it with WithValue
C38_NewContextFreshWithValueShares ==
    /\ \A c \in DOMAIN contexts.vals :
          LET v == contexts.vals[c] IN
          /\ v.how = "NewContext" =>
                /\ v.cfg = contexts.vals[v.from].cfg
                /\ v.ancestry = <<>>
                /\ v.cleanupFuncs = <<>>
                /\ v.exitFuncs = <<>>
                /\ \A d \in DOMAIN contexts.vals :
                      Origin(d) # c => contexts.vals[d].moduleInstances # v.moduleInstances
                /\ InstancesIn(c) =
                      {contexts.log[i].inst : i \in {i \in LoadsLogged :
                                                       Origin(contexts.log[i].ctx) = c}}
          /\ v.how = "WithValue" =>
                /\ v.moduleInstances = contexts.vals[v.from].moduleInstances
                /\ InstancesIn(c) = InstancesIn(v.from)
    /\ \A n \in DOMAIN contexts.cancels :
          contexts.cancels[n].called =>
             \A i \in LoadsLogged, j \in DOMAIN contexts.log :
                (/\ contexts.log[j] = [ev |-> "Cancel", inst |-> NoInst, ctx |-> n]
                 /\ i < j
                 /\ Origin(contexts.log[i].ctx) = contexts.cancels[n].newCtx) =>
                   Cardinality({k \in DOMAIN contexts.log :
                                   contexts.log[k] = [ev |-> "Cleanup",
                                                      inst |-> contexts.log[i].inst,
                                                      ctx |-> n]}) = 1

\* NewContext was given a Context with an instance, an ancestry and
\* callbacks; a Context was derived from the new one with WithValue, a module
\* was loaded through the derived one, and the cancel function of the new
\* Context has cleaned the instance up
C38_Witness ==
    /\ Len(contexts.vals) >= 3
    /\ contexts.vals[1].ancestry = <<9>>
    /\ contexts.vals[1].cleanupFuncs = <<"f">>
    /\ contexts.heap[1] # EmptyMap
    /\ contexts.vals[2].how = "NewContext" /\ contexts.vals[2].from = 1
    /\ contexts.vals[3].how = "WithValue" /\ contexts.vals[3].from = 2
    /\ contexts.log = <<[ev |-> "Load", inst |-> 1, ctx |-> 3],
                        [ev |-> "Cancel", inst |-> NoInst, ctx |-> 1],
                        [ev |-> "Cleanup", inst |-> 1, ctx |-> 1]>>

\* ---------------------------------------------------------------- C39

\* the load y had returned its instance when the load x returned its error
LoadedBeforeFailure(y, x) ==
    \E r \in Idx("Return", y), f \in Idx("Return", x) :
        trace[r].res = NoErr /\ trace[f].res # NoErr /\ r < f

\* C39: an instance that was loaded before a later load of the sequence, or
\* the load in whose Provision it was loaded, failed, is not cleaned up by
\* the failure: it stays in the instance map, no Cleanup of it is called
\* outside the cancel function, and the cancel function, once it has run,
\* has called its Cleanup once if it is a CleanerUpper
C39_EarlierLoadsKeptUntilCancel ==
    LET failed == {f \in DOMAIN trace : trace[f].ev = "Return" /\ trace[f].res # NoErr}
    IN failed # {} =>
          LET span == CancelSpan
              early == {trace[r].call : r \in {r \in DOMAIN trace :
                                                 /\ trace[r].ev = "Return"
                                                 /\ trace[r].res = NoErr
                                                 /\ \E f \in failed : r < f}}
          IN \A y \in early :
                LET cleanups == Idx("Cleanup", y)
                IN /\ y \in InstancesOf(calls[y].id)
                   /\ \A c \in cleanups : span[1] < c /\ c < span[2]
                   /\ (canceled /\ LoadedBeforeCancel(y, span)) =>
                         Cardinality(cleanups) = IF IsA(y, "CleanerUpper") THEN 1 ELSE 0

\* a CleanerUpper was loaded in the Provision of a load that failed then and
\* was rolled back, and the cancel function has cleaned the first up
C39_Witness ==
    /\ canceled
    /\ \E x, y \in DOMAIN calls :
          /\ NestedIn(y, x)
          /\ LoadedBeforeFailure(y, x)
          /\ IsA(y, "CleanerUpper")
          /\ RollbackCleanups(x, CancelSpan) # {}
          /\ Cardinality(CancelCleanups(y, CancelSpan)) = 1

\* ---------------------------------------------------------------- concurrent LogBufferCore

\* how many goroutines call the core
NumLogGoroutines == 2

\* a goroutine that is in no call of the core
NoCall ==
    [pc |-> "idle", entry |-> Entry("", "", 0), fields |-> <<>>, logger |-> "",
     ranged |-> <<>>, idx |-> 0]

\* a core that takes the lock without waiting
CanLockCore_Always(g) == TRUE

\* c.mu.Lock() returns for goroutine g when nobody holds the mutex
CanLockCore(g) == logCore.mu = 0

\* goroutine g calls c.Write(entry, fields)
CallWrite(g, level, message, fields) ==
    /\ logCore.procs[g].pc = "idle"
    /\ logCore.written < MaxWrites
    /\ logCore' = [logCore EXCEPT
          !.written = @ + 1,
          !.sent = Append(@, fields),
          !.procs[g] = [NoCall EXCEPT !.pc = "Write",
                                      !.entry = Entry(level, message, logCore.written + 1),
                                      !.fields = fields]]
    /\ UNCHANGED coreVars

\* goroutine g calls c.FlushTo(logger)
CallFlushTo(g, logger) ==
    /\ logCore.procs[g].pc = "idle"
    /\ logCore.flushes < MaxFlushes
    /\ logCore' = [logCore EXCEPT
          !.flushes = @ + 1,
          !.procs[g] = [NoCall EXCEPT !.pc = "FlushTo", !.logger = logger]]
    /\ UNCHANGED coreVars

\* c.mu.Lock() of Write and of FlushTo; the range of FlushTo evaluates
\* c.entries once, when the loop begins
LockCore(g) ==
    /\ logCore.procs[g].pc \in {"Write", "FlushTo"}
    /\ CanLockCore(g)
    /\ logCore' = [logCore EXCEPT
          !.mu = g,
          !.procs[g] = IF @.pc = "Write"
                         THEN [@ EXCEPT !.pc = "entries"]
                         ELSE [@ EXCEPT !.pc = "range", !.ranged = logCore.entries,
                                        !.idx = 1]]
    /\ UNCHANGED coreVars

\* the statements of Write: c.entries = append(c.entries, entry), then
\* c.fields = append(c.fields, fields)
WriteStep(g) ==
    /\ logCore.procs[g].pc \in {"entries", "fields"}
    /\ logCore' = IF logCore.procs[g].pc = "entries"
                    THEN [logCore EXCEPT !.entries = Append(@, logCore.procs[g].entry),
                                         !.procs[g].pc = "fields"]
                    ELSE [logCore EXCEPT !.fields = Append(@, logCore.procs[g].fields),
                                         !.procs[g].pc = "unlock"]
    /\ UNCHANGED coreVars

\* the statements of FlushTo: one iteration of the range, which reads
\* c.fields[idx] and panics when there is none, then c.entries = nil, then
\* c.fields = nil
FlushStep(g) ==
    /\ logCore.procs[g].pc \in {"range", "nilEntries", "nilFields"}
    /\ LET me == logCore.procs[g]
       IN logCore' =
             IF me.pc = "range"
               THEN IF me.idx > Len(me.ranged)
                      THEN [logCore EXCEPT !.procs[g].pc = "nilEntries"]
                    ELSE IF me.idx > Len(logCore.fields)
                      THEN [logCore EXCEPT !.procs[g].pc = "unlock",
                                           !.procs[g].logger = "panic"]
                    ELSE [logCore EXCEPT
                            !.out = Append(@, LogCall(me.logger, me.ranged[me.idx],
                                                      logCore.fields[me.idx])),
                            !.procs[g].idx = @ + 1]
             ELSE IF me.pc = "nilEntries"
               THEN [logCore EXCEPT !.entries = <<>>, !.procs[g].pc = "nilFields"]
             ELSE [logCore EXCEPT !.fields = <<>>, !.procs[g].pc = "unlock"]
    /\ UNCHANGED coreVars

\* the deferred c.mu.Unlock(), and the return of the call
UnlockCore(g) ==
    /\ logCore.procs[g].pc = "unlock"
    /\ logCore' = [logCore EXCEPT
          !.mu = IF @ = g THEN 0 ELSE @,
          !.returned = IF logCore.procs[g].entry.time # 0
                         THEN @ \cup {logCore.procs[g].entry.time} ELSE @,
          !.procs[g] = NoCall]
    /\ UNCHANGED coreVars

\* NewLogBufferCore has returned the core, and goroutines share it
InitLogGoroutines ==
    /\ modules = EmptyMap
    /\ panicMsg = NoErr
    /\ moduleInstances = EmptyMap
    /\ cleanupFuncs = <<>>
    /\ apps = EmptyMap
    /\ failedApps = EmptyMap
    /\ eventEmitter = NoInst
    /\ stack = <<>>
    /\ calls = <<>>
    /\ trace = <<>>
    /\ canceled = FALSE
    /\ NoGoroutines
    /\ NoListing
    /\ OneContext
    /\ resolving = NotResolving
    /\ evaluated = NotEvaluated
    /\ contexts = NoContexts
    /\ logCore = [NoLogCore EXCEPT !.procs = [g \in 1..NumLogGoroutines |-> NoCall]]

\* the goroutines call Write and FlushTo and run them a statement at a time;
\* the entries differ by their fields and their time, and there is one logger
NextLogGoroutines ==
    \E g \in 1..NumLogGoroutines :
        \/ \E fields \in FieldLists : CallWrite(g, "info", "m", fields)
        \/ CallFlushTo(g, "l1")
        \/ LockCore(g)
        \/ WriteStep(g)
        \/ FlushStep(g)
        \/ UnlockCore(g)

SpecLogGoroutines == InitLogGoroutines /\ [][NextLogGoroutines]_vars

\* ---------------------------------------------------------------- C40

\* the calls made on loggers for the entry of the n-th Write
FlushedOf(n) == {i \in DOMAIN logCore.out : logCore.out[i].of.time = n}

\* the places of the buffer that hold the entry of the n-th Write
BufferedOf(n) == {i \in DOMAIN logCore.entries : logCore.entries[i].time = n}

\* C40: whatever the interleaving of the goroutines, no FlushTo panics; the
\* entry of a Write is never given to a logger twice, and it is given with
\* the fields of its Write; the entry of a Write that has returned has been
\* given to a logger or is in the buffer, and when no call holds the mutex
\* it is one or the other, once, and the buffer holds its fields at the
\* place of the entry
C40_ConcurrentEntriesDeliveredOnce ==
    /\ \A g \in DOMAIN logCore.procs : logCore.procs[g].logger # "panic"
    /\ \A n \in 1..logCore.written :
          /\ Cardinality(FlushedOf(n)) <= 1
          /\ \A i \in FlushedOf(n) : logCore.out[i].fields = logCore.sent[n]
          /\ n \in logCore.returned =>
                Cardinality(FlushedOf(n)) + Cardinality(BufferedOf(n)) >= 1
          /\ (n \in logCore.returned /\ logCore.mu = 0) =>
                /\ Cardinality(FlushedOf(n)) + Cardinality(BufferedOf(n)) = 1
                /\ Len(logCore.fields) = Len(logCore.entries)
                /\ \A i \in BufferedOf(n) : logCore.fields[i] = logCore.sent[n]

\* two goroutines were in Write at once, one with a field and one without,
\* and the one that called second took the mutex first; both entries have
\* been given to a logger, the second before the first, the buffer is empty
\* and no call holds the mutex
C40_Witness ==
    /\ logCore.procs # <<>>
    /\ logCore.mu = 0
    /\ logCore.returned = {1, 2}
    /\ logCore.sent[1] # logCore.sent[2]
    /\ Cardinality(FlushedOf(1)) = 1
    /\ Cardinality(FlushedOf(2)) = 1
    /\ logCore.entries = <<>>
    /\ \E i \in FlushedOf(1), j \in FlushedOf(2) : j < i

====
